---- MODULE Spec2Model ----
(***************************************************************************)
(* Model of the Expense Tracker ledger (src/main.py): the SQLite store     *)
(* with its foreign-key actions, the rule engine, add_transaction,         *)
(* import_csv, delete_category and delete_account, the maintenance of      *)
(* transactions, splits and goals, the category seeding and the budget     *)
(* summary.                                                                *)
(*                                                                         *)
(* Conventions                                                              *)
(*   - SQL NULL / Python None is the id 0 (AUTOINCREMENT ids start at 1).  *)
(*   - amounts and rates are integers; gst_amount is kept in hundredths,   *)
(*     so round(amt * rate / 100.0, 2) is exactly amt * rate.              *)
(*   - a value that the caller supplies where a number is expected is a    *)
(*     record [num, v]: num = FALSE is a text float() cannot convert.      *)
(*   - a Python call that may raise returns a record with a field          *)
(*     "raised"; the caller propagates it as the source's try/except does. *)
(*   - now is the reading of the clock that datetime('now') returns, in    *)
(*     whole seconds.                                                      *)
(***************************************************************************)
EXTENDS Integers, Sequences, FiniteSets, TLC

VARIABLES accounts, categories, transactions, splits, budgets, rules, goals, seq, now, last

vars == <<accounts, categories, transactions, splits, budgets, rules, goals, seq, now, last>>

NULL == 0

\* ---------------------------------------------------------------- bounds
MaxTx == 3
MaxCats == 4
MaxRules == 2
MaxAccounts == 2
MaxRows == 3
MaxSplits == 3
MaxGoals == 2
MaxClock == 1

\* ---------------------------------------------------------------- values
Num(n) == [num |-> TRUE, v |-> n]
NaN == [num |-> FALSE, v |-> 0]

\* ---------------------------------------------------------------- dates
\* A date text is three digit groups f[1..3] of widths w[1..3] joined by the
\* separator sep, followed by further characters when tail is TRUE.
\* The empty text has all widths 0.
DateText(f1, w1, f2, w2, f3, w3, sep, tail) ==
    [f |-> <<f1, f2, f3>>, w |-> <<w1, w2, w3>>, sep |-> sep, tail |-> tail]

Canonical(y, m, d) == DateText(y, 4, m, 2, d, 2, "-", FALSE)

\* The number of decimal digits of n >= 0
RECURSIVE DigitCount(_)
DigitCount(n) == IF n < 10 THEN 1 ELSE 1 + DigitCount(n \div 10)

\* date.strftime("%Y-%m-%d"): month and day are zero-padded to two digits, the
\* year is printed by the C library without padding (year 999 gives "999").
strftime(y, m, d) == DateText(y, DigitCount(y), m, 2, d, 2, "-", FALSE)

IsLeap(y) == (y % 4 = 0 /\ y % 100 # 0) \/ y % 400 = 0

DaysIn(y, m) ==
    IF m = 2 THEN (IF IsLeap(y) THEN 29 ELSE 28)
    ELSE IF m \in {4, 6, 9, 11} THEN 30 ELSE 31

ValidYMD(y, m, d) == y >= 1 /\ m \in 1..12 /\ d >= 1 /\ d <= DaysIn(y, m)

\* datetime.strptime(s, fmt) for the five formats of coerce_date; order is
\* the position of year, month, day among the three groups.
strptime(s, sep, yi, mi, di) ==
    LET y == s.f[yi]  m == s.f[mi]  d == s.f[di] IN
    IF /\ ~s.tail
       /\ s.sep = sep
       /\ s.w[yi] = 4
       /\ s.w[mi] \in {1, 2}
       /\ s.w[di] \in {1, 2}
       /\ ValidYMD(y, m, d)
    THEN [raised |-> FALSE, val |-> strftime(y, m, d)]
    ELSE [raised |-> TRUE, val |-> s]

\* datetime.fromisoformat(s[:10]): the first ten characters must be
\* YYYY-MM-DD and a real date.
fromisoformat10(s) ==
    IF s.sep = "-" /\ s.w[1] = 4 /\ s.w[2] = 2 /\ s.w[3] >= 2
       /\ (s.w[3] = 2 \/ ~s.tail)
       /\ ValidYMD(s.f[1], s.f[2], s.f[3])
    THEN [raised |-> FALSE, val |-> strftime(s.f[1], s.f[2], s.f[3])]
    ELSE [raised |-> TRUE, val |-> s]

\* mutant: the month-first formats are tried before the day-first ones
coerce_date_month_first(s) ==
    IF s.sep = "-" /\ s.w = <<4, 2, 2>> /\ ~s.tail
    THEN [raised |-> FALSE, val |-> s]
    ELSE LET a1 == strptime(s, "/", 1, 2, 3)
             a2 == strptime(s, "-", 3, 2, 1)
             a3 == strptime(s, "/", 3, 2, 1)
             a4 == strptime(s, "-", 3, 1, 2)
             a5 == strptime(s, "/", 3, 1, 2)
         IN  IF ~a1.raised THEN a1
             ELSE IF ~a4.raised THEN a4
             ELSE IF ~a5.raised THEN a5
             ELSE IF ~a2.raised THEN a2
             ELSE IF ~a3.raised THEN a3
             ELSE fromisoformat10(s)

coerce_date(s) ==
    IF s.sep = "-" /\ s.w = <<4, 2, 2>> /\ ~s.tail
    THEN [raised |-> FALSE, val |-> s]
    ELSE LET a1 == strptime(s, "/", 1, 2, 3)
             a2 == strptime(s, "-", 3, 2, 1)
             a3 == strptime(s, "/", 3, 2, 1)
             a4 == strptime(s, "-", 3, 1, 2)
             a5 == strptime(s, "/", 3, 1, 2)
         IN  IF ~a1.raised THEN a1
             ELSE IF ~a2.raised THEN a2
             ELSE IF ~a3.raised THEN a3
             ELSE IF ~a4.raised THEN a4
             ELSE IF ~a5.raised THEN a5
             ELSE fromisoformat10(s)

money(x) == IF x.num THEN [raised |-> FALSE, val |-> x.v] ELSE [raised |-> TRUE, val |-> 0]


\* ---------------------------------------------------------------- store
\* The working copy of the tables that one connection sees.
DB == [accounts |-> accounts, categories |-> categories, transactions |-> transactions,
       splits |-> splits, budgets |-> budgets, rules |-> rules, goals |-> goals,
       seq |-> seq, now |-> now]

Min(S) == CHOOSE x \in S : \A y \in S : x <= y

\* ids of a table in rowid order (a table scan without ORDER BY)
RECURSIVE RowidOrder(_)
RowidOrder(S) == IF S = {} THEN <<>> ELSE <<Min(S)>> \o RowidOrder(S \ {Min(S)})

Raise(d) == [raised |-> TRUE, db |-> d, id |-> NULL]
Done(d, id) == [raised |-> FALSE, db |-> d, id |-> id]

TxTypes == {"expense", "income", "transfer"}

\* INSERT INTO accounts: name UNIQUE
InsertAccount(d, name) ==
    IF \E a \in DOMAIN d.accounts : d.accounts[a].name = name
    THEN Raise(d)
    ELSE LET id == d.seq.accounts + 1 IN
         Done([d EXCEPT !.accounts = @ @@ (id :> [name |-> name]),
                        !.seq.accounts = id], id)

\* INSERT INTO categories: FOREIGN KEY(parent_id), UNIQUE(name, parent_id).
\* In a UNIQUE index two NULLs are distinct, so root rows never collide.
\* The foreign key is tested when the statement ends, with the new row in the
\* table: a parent_id equal to the id the row is given satisfies it.
InsertCategory(d, name, parent_id) ==
    IF parent_id # NULL /\ parent_id \notin DOMAIN d.categories \cup {d.seq.categories + 1}
    THEN Raise(d)
    ELSE IF /\ parent_id # NULL
            /\ \E c \in DOMAIN d.categories :
                   d.categories[c].name = name /\ d.categories[c].parent_id = parent_id
    THEN Raise(d)
    ELSE LET id == d.seq.categories + 1 IN
         Done([d EXCEPT !.categories = @ @@ (id :> [name |-> name, parent_id |-> parent_id]),
                        !.seq.categories = id], id)

\* INSERT INTO transactions: CHECK(type IN ...), FOREIGN KEY(account_id),
\* updated_at DEFAULT (datetime('now'))
InsertTransaction(d, date, account_id, amount, currency, type, merchant, notes) ==
    IF type \notin TxTypes
    THEN Raise(d)
    ELSE IF account_id # NULL /\ account_id \notin DOMAIN d.accounts
    THEN Raise(d)
    ELSE LET id == d.seq.transactions + 1 IN
         Done([d EXCEPT !.transactions = @ @@ (id :>
                            [date |-> date, account_id |-> account_id, amount |-> amount,
                             currency |-> currency, type |-> type, merchant |-> merchant,
                             notes |-> notes, updated_at |-> d.now]),
                        !.seq.transactions = id], id)

\* mutant: the foreign key on category_id is not enforced
InsertSplitAnyCategory(d, transaction_id, category_id, amount, gst_rate, gst_amount, tags) ==
    IF transaction_id \notin DOMAIN d.transactions
    THEN Raise(d)
    ELSE LET id == d.seq.splits + 1 IN
         Done([d EXCEPT !.splits = @ @@ (id :>
                            [transaction_id |-> transaction_id, category_id |-> category_id,
                             amount |-> amount, gst_rate |-> gst_rate,
                             gst_amount |-> gst_amount, tags |-> tags]),
                        !.seq.splits = id], id)

\* INSERT INTO transaction_splits: FOREIGN KEY(transaction_id), FOREIGN KEY(category_id)
InsertSplit(d, transaction_id, category_id, amount, gst_rate, gst_amount, tags) ==
    IF transaction_id \notin DOMAIN d.transactions
    THEN Raise(d)
    ELSE IF category_id # NULL /\ category_id \notin DOMAIN d.categories
    THEN Raise(d)
    ELSE LET id == d.seq.splits + 1 IN
         Done([d EXCEPT !.splits = @ @@ (id :>
                            [transaction_id |-> transaction_id, category_id |-> category_id,
                             amount |-> amount, gst_rate |-> gst_rate,
                             gst_amount |-> gst_amount, tags |-> tags]),
                        !.seq.splits = id], id)

\* INSERT INTO budgets ... ON CONFLICT(month_yyyymm, category_id) DO UPDATE
UpsertBudget(d, month, category_id, amount) ==
    IF category_id \notin DOMAIN d.categories
    THEN Raise(d)
    ELSE Done([d EXCEPT !.budgets =
                   {b \in @ : ~(b.month_yyyymm = month /\ b.category_id = category_id)}
                   \cup {[month_yyyymm |-> month, category_id |-> category_id,
                          amount |-> amount]}], NULL)

\* INSERT INTO rules
InsertRule(d, when_json, set_json, priority, enabled) ==
    LET id == d.seq.rules + 1 IN
    Done([d EXCEPT !.rules = @ @@ (id :>
                       [when_json |-> when_json, set_json |-> set_json,
                        priority |-> priority, enabled |-> enabled]),
                   !.seq.rules = id], id)

Restrict(f, S) == [x \in S |-> f[x]]

\* categories.parent_id ... ON DELETE CASCADE: the rows a delete of ids takes
\* with it, to any depth
RECURSIVE CascadeClosure(_, _)
CascadeClosure(cats, ids) ==
    LET more == ids \cup {c \in DOMAIN cats : cats[c].parent_id \in ids} IN
    IF more = ids THEN ids ELSE CascadeClosure(cats, more)

\* DELETE FROM categories WHERE id IN ids, with the foreign-key actions of
\* the schema: child categories and budgets cascade, splits are set NULL.
DeleteCategoryRows(d, ids) ==
    LET gone == CascadeClosure(d.categories, ids \cap DOMAIN d.categories) IN
    [d EXCEPT !.categories = Restrict(@, DOMAIN @ \ gone),
              !.budgets = {b \in @ : b.category_id \notin gone},
              !.splits = [s \in DOMAIN @ |->
                             IF @[s].category_id \in gone
                             THEN [@[s] EXCEPT !.category_id = NULL] ELSE @[s]]]

\* mutant: the delete of an account takes its transactions with it
DeleteAccountRowCascade(d, id) ==
    [d EXCEPT !.accounts = Restrict(@, DOMAIN @ \ {id}),
              !.transactions = Restrict(@, {t \in DOMAIN @ : @[t].account_id # id})]

\* DELETE FROM accounts WHERE id=?: transactions.account_id ON DELETE SET NULL
DeleteAccountRow(d, id) ==
    [d EXCEPT !.accounts = Restrict(@, DOMAIN @ \ {id}),
              !.transactions = [t \in DOMAIN @ |->
                                   IF @[t].account_id = id
                                   THEN [@[t] EXCEPT !.account_id = NULL] ELSE @[t]]]

\* mutant: the working copy is committed even when the block raised
WithConnNoRollback(before, r) == r.db

\* `with get_conn() as c:` commits the working copy when the block is left
\* normally (a return included) and rolls it back when it is left by an
\* exception.
WithConn(before, r) == IF r.raised THEN before ELSE r.db


\* ---------------------------------------------------------------- rules
\* A JSON object is a record that lists the keys it has; the fields of
\* absent keys hold a filler that is never read.
WhenKeys == {"merchant_regex", "amount_min", "amount_max", "type"}
SetKeys == {"category_id", "tags", "gst_rate"}

When(has, merchant_regex, amount_min, amount_max, type) ==
    [has |-> has, merchant_regex |-> merchant_regex, amount_min |-> amount_min,
     amount_max |-> amount_max, type |-> type]

Overrides(has, category_id, tags, gst_rate) ==
    [has |-> has, category_id |-> category_id, tags |-> tags, gst_rate |-> gst_rate]

EmptyWhen == When({}, <<>>, Num(0), Num(0), "")
EmptySet == Overrides({}, NULL, "", Num(0))

\* json.dumps / json.loads: a text column either holds the serialisation of
\* an object or a text that no parser accepts.
json_dumps(obj) == [parses |-> TRUE, obj |-> obj]
json_loads(text) == [raised |-> ~text.parses, val |-> text.obj]

\* re.search(pattern, text, flags=re.I) for patterns over letters and "(":
\* a pattern with "(" does not compile (re.error); otherwise it is a literal,
\* found anywhere in the text, ignoring case.
Lower(ch) == CASE ch = "A" -> "a" [] ch = "B" -> "b" [] OTHER -> ch

Compiles(pattern) == \A i \in 1..Len(pattern) : pattern[i] # "("

FoundAt(pattern, text, i) ==
    \A j \in 1..Len(pattern) : Lower(text[i + j - 1]) = Lower(pattern[j])

re_search(pattern, text) ==
    IF ~Compiles(pattern)
    THEN [raised |-> TRUE, val |-> FALSE]
    ELSE [raised |-> FALSE,
          val |-> \E i \in 1..(Len(text) - Len(pattern) + 1) : FoundAt(pattern, text, i)]

\* The row of _load_rules for rule id, when both JSON columns parse
LoadedRule(d, id) ==
    [id |-> id,
     when |-> json_loads(d.rules[id].when_json).val,
     set |-> json_loads(d.rules[id].set_json).val,
     priority |-> d.rules[id].priority,
     enabled |-> d.rules[id].enabled]

\* mutant: a row is appended whether or not json.loads raised
ParsesAnything(d, id) == TRUE

Parses(d, id) ==
    /\ ~json_loads(d.rules[id].when_json).raised
    /\ ~json_loads(d.rules[id].set_json).raised

RECURSIVE LoadLoop(_, _)
LoadLoop(d, ids) ==
    IF ids = <<>> THEN <<>>
    ELSE (IF Parses(d, Head(ids)) THEN <<LoadedRule(d, Head(ids))>> ELSE <<>>)
         \o LoadLoop(d, Tail(ids))

_load_rules(d) ==
    LoadLoop(d, RowidOrder({id \in DOMAIN d.rules : d.rules[id].enabled}))

\* mutant: the rules are visited in load order, not sorted
sorted_load_order(rs) == rs

\* sorted(rules, key=priority): stable, so equal priorities keep list order
RECURSIVE sorted(_)
sorted(rs) ==
    IF rs = <<>> THEN <<>>
    ELSE LET x == rs[Len(rs)]
             front == sorted(SubSeq(rs, 1, Len(rs) - 1))
             NotAfter(r) == r.priority <= x.priority
             After(r) == r.priority > x.priority
         IN  SelectSeq(front, NotAfter) \o <<x>> \o SelectSeq(front, After)

\* mutant: the amount bounds are exclusive
RuleMatchExclusive(W, trn) ==
    LET re == IF "merchant_regex" \in W.has
              THEN re_search(W.merchant_regex, trn.merchant)
              ELSE [raised |-> FALSE, val |-> TRUE]
        m1 == re.val
        minRaises == m1 /\ "amount_min" \in W.has /\ ~W.amount_min.num
        m2 == m1 /\ ~("amount_min" \in W.has /\ trn.amount <= W.amount_min.v)
        maxRaises == m2 /\ "amount_max" \in W.has /\ ~W.amount_max.num
        m3 == m2 /\ ~("amount_max" \in W.has /\ trn.amount >= W.amount_max.v)
        m4 == m3 /\ ~("type" \in W.has /\ trn.type # W.type)
    IN  IF re.raised \/ minRaises \/ maxRaises
        THEN [raised |-> TRUE, val |-> FALSE]
        ELSE [raised |-> FALSE, val |-> m4]

\* The predicate of one rule on trn: ok_match, or the exception that
\* re.search or float() raises on the way.
RuleMatch(W, trn) ==
    LET re == IF "merchant_regex" \in W.has
              THEN re_search(W.merchant_regex, trn.merchant)
              ELSE [raised |-> FALSE, val |-> TRUE]
        m1 == re.val
        minRaises == m1 /\ "amount_min" \in W.has /\ ~W.amount_min.num
        m2 == m1 /\ ~("amount_min" \in W.has /\ trn.amount < W.amount_min.v)
        maxRaises == m2 /\ "amount_max" \in W.has /\ ~W.amount_max.num
        m3 == m2 /\ ~("amount_max" \in W.has /\ trn.amount > W.amount_max.v)
        m4 == m3 /\ ~("type" \in W.has /\ trn.type # W.type)
    IN  IF re.raised \/ minRaises \/ maxRaises
        THEN [raised |-> TRUE, val |-> FALSE]
        ELSE [raised |-> FALSE, val |-> m4]

\* set_accum.update(S)
DictUpdate(acc, S) ==
    [has |-> acc.has \cup S.has,
     category_id |-> IF "category_id" \in S.has THEN S.category_id ELSE acc.category_id,
     tags |-> IF "tags" \in S.has THEN S.tags ELSE acc.tags,
     gst_rate |-> IF "gst_rate" \in S.has THEN S.gst_rate ELSE acc.gst_rate]

RECURSIVE ApplyLoop(_, _, _)
ApplyLoop(trn, rs, acc) ==
    IF rs = <<>> THEN [raised |-> FALSE, val |-> acc]
    ELSE LET r == Head(rs) IN
         IF ~r.enabled THEN ApplyLoop(trn, Tail(rs), acc)
         ELSE LET m == RuleMatch(r.when, trn) IN
              IF m.raised THEN [raised |-> TRUE, val |-> acc]
              ELSE ApplyLoop(trn, Tail(rs), IF m.val THEN DictUpdate(acc, r.set) ELSE acc)

_apply_rules_row(trn, rs) == ApplyLoop(trn, sorted(rs), EmptySet)

\* dict.get(key, default) on an override map
GetCategory(S, default) == IF "category_id" \in S.has THEN S.category_id ELSE default
GetTags(S) == IF "tags" \in S.has THEN S.tags ELSE ""
GetGst(S) == IF "gst_rate" \in S.has THEN S.gst_rate ELSE Num(0)

Trn(date, amount, type, merchant, notes) ==
    [date |-> date, amount |-> amount, type |-> type, merchant |-> merchant, notes |-> notes]


\* ---------------------------------------------------------------- handlers
\* float(x): the number, or ValueError
float(x) == [raised |-> ~x.num, val |-> x.v]

\* round(amt * gst_rate / 100.0, 2) if gst_rate else 0.0, in hundredths
GstAmount(amt, gst_rate) == IF gst_rate # 0 THEN amt * gst_rate ELSE 0

\* The result of a handler: the envelope (ok or err), its data, and the
\* tables it leaves behind.
Envelope(isOk, data, d) == [ok |-> isOk, data |-> data, db |-> d]

\* add_transaction, `if not splits:` branch (lines 377-388)
SingleSplit(d, tx_id, date, amt, type, merchant, notes, rs) ==
    LET cls == _apply_rules_row(Trn(date, amt, type, merchant, notes), rs) IN
    IF cls.raised THEN Raise(d)
    ELSE LET gst == float(GetGst(cls.val)) IN
         IF gst.raised THEN Raise(d)
         ELSE InsertSplit(d, tx_id, GetCategory(cls.val, NULL), amt, gst.val,
                          GstAmount(amt, gst.val), GetTags(cls.val))

\* mutant: a split of amount zero is stored like any other
ExplicitSplitKeepsZero(d, tx_id, date, type, merchant, notes, sp, apply_rules, rs) ==
    LET sp_amt == money(sp.amount) IN
    IF sp_amt.raised THEN Raise(d)
    ELSE InsertSplit(d, tx_id, sp.category_id, sp_amt.val, 0, 0, sp.tags)

\* add_transaction, one turn of `for sp in splits:` (lines 390-411)
ExplicitSplit(d, tx_id, date, type, merchant, notes, sp, apply_rules, rs) ==
    LET sp_amt == money(sp.amount) IN
    IF sp_amt.raised THEN Raise(d)
    ELSE IF sp_amt.val = 0 THEN Done(d, NULL)
    ELSE LET own == float(sp.gst_rate) IN
         IF own.raised THEN Raise(d)
         ELSE IF ~apply_rules
         THEN InsertSplit(d, tx_id, sp.category_id, sp_amt.val, own.val,
                          GstAmount(sp_amt.val, own.val), sp.tags)
         ELSE LET cls == _apply_rules_row(Trn(date, sp_amt.val, type, merchant, notes), rs) IN
              IF cls.raised THEN Raise(d)
              ELSE LET fromRule == float(GetGst(cls.val))
                       tags == IF sp.tags = "" THEN GetTags(cls.val) ELSE sp.tags
                   IN  IF own.val = 0 /\ fromRule.raised THEN Raise(d)
                       ELSE LET gst_rate == IF own.val = 0 THEN fromRule.val ELSE own.val IN
                            InsertSplit(d, tx_id, GetCategory(cls.val, sp.category_id),
                                        sp_amt.val, gst_rate,
                                        GstAmount(sp_amt.val, gst_rate), tags)

\* r is the outcome of one turn of the loop
RECURSIVE SplitLoop(_, _, _, _, _, _, _, _, _)
SplitLoop(d, tx_id, date, type, merchant, notes, sps, apply_rules, rs) ==
    IF sps = <<>> THEN Done(d, tx_id)
    ELSE CHOOSE out \in
             {IF r.raised THEN r
              ELSE SplitLoop(r.db, tx_id, date, type, merchant, notes, Tail(sps), apply_rules, rs) :
                 r \in {ExplicitSplit(d, tx_id, date, type, merchant, notes, Head(sps),
                                      apply_rules, rs)}} : TRUE

\* add_transaction, the body of the `with` block (lines 366-413)
AddTransactionBlock(d, date, amt, type, account_id, currency, merchant, notes, splitList, apply_rules) ==
    LET ins == InsertTransaction(d, date, account_id, amt, currency, type, merchant, notes) IN
    IF ins.raised THEN ins
    ELSE LET rs == IF apply_rules THEN _load_rules(ins.db) ELSE <<>>
             r == IF splitList = <<>>
                  THEN SingleSplit(ins.db, ins.id, date, amt, type, merchant, notes, rs)
                  ELSE SplitLoop(ins.db, ins.id, date, type, merchant, notes, splitList,
                                 apply_rules, rs)
         IN  IF r.raised THEN r ELSE Done(r.db, ins.id)

AddTransactionCall(d, date, amount, type, account_id, currency, merchant, notes, splitList, apply_rules) ==
    LET dt == coerce_date(date)
        amt == money(amount)
    IN  IF dt.raised \/ amt.raised THEN Envelope(FALSE, NULL, d)
        ELSE IF type \notin TxTypes THEN Envelope(FALSE, NULL, d)
        ELSE LET r == AddTransactionBlock(d, dt.val, amt.val, type, account_id, currency,
                                          merchant, notes, splitList, apply_rules) IN
             Envelope(~r.raised, r.id, WithConn(d, r))


\* import_csv: SELECT id FROM categories WHERE name=? AND parent_id IS NULL
\* (fetchone: the first such row), None when the cell is empty or no row is found
ResolveCategory(d, category_name) ==
    LET hits == {c \in DOMAIN d.categories :
                    d.categories[c].name = category_name /\ d.categories[c].parent_id = NULL}
    IN  IF category_name = "" \/ hits = {} THEN NULL ELSE Min(hits)

ImportState(raised, d, preview, inserted) ==
    [raised |-> raised, db |-> d, preview |-> preview, inserted |-> inserted]

\* mutant: rows are written in dry-run mode too
CommitsAlways(dry_run) == TRUE

\* import_csv, `if dry_run: preview.append(...) else: INSERT ...` (line 734)
Commits(dry_run) == ~dry_run

\* import_csv, one turn of `for row in reader:` (lines 708-749)
ImportRow(st, row, rs, dry_run, default_type, account_id) ==
    LET d == st.db
        dt == coerce_date(row.date)
        amt == money(row.amount)
    IN  IF dt.raised \/ amt.raised THEN [st EXCEPT !.raised = TRUE]
        ELSE LET cls == _apply_rules_row(
                            Trn(dt.val, amt.val, default_type, row.merchant, row.notes), rs)
             IN
             IF cls.raised THEN [st EXCEPT !.raised = TRUE]
             ELSE LET category_id == GetCategory(cls.val, ResolveCategory(d, row.category_name))
                      tags == IF row.tags = "" THEN GetTags(cls.val) ELSE row.tags
                      gst == float(GetGst(cls.val))
                  IN
                  IF gst.raised THEN [st EXCEPT !.raised = TRUE]
                  ELSE IF ~Commits(dry_run)
                  THEN [st EXCEPT !.preview = Append(@,
                            [date |-> dt.val, amount |-> amt.val, type |-> default_type,
                             merchant |-> row.merchant, notes |-> row.notes,
                             category_id |-> category_id, tags |-> tags,
                             gst_rate |-> gst.val,
                             gst_amount |-> GstAmount(amt.val, gst.val)])]
                  ELSE LET tx == InsertTransaction(d, dt.val, account_id, amt.val, "INR",
                                                   default_type, row.merchant, row.notes)
                       IN
                       IF tx.raised THEN [st EXCEPT !.raised = TRUE]
                       ELSE LET sp == InsertSplit(tx.db, tx.id, category_id, amt.val, gst.val,
                                                  GstAmount(amt.val, gst.val), tags)
                            IN
                            IF sp.raised THEN [st EXCEPT !.raised = TRUE, !.db = tx.db]
                            ELSE [st EXCEPT !.db = sp.db, !.inserted = @ + 1]

RECURSIVE ImportLoop(_, _, _, _, _, _)
ImportLoop(st, rows, rs, dry_run, default_type, account_id) ==
    IF rows = <<>> THEN st
    ELSE CHOOSE out \in
             {IF nxt.raised THEN nxt
              ELSE ImportLoop(nxt, Tail(rows), rs, dry_run, default_type, account_id) :
                 nxt \in {ImportRow(st, Head(rows), rs, dry_run, default_type, account_id)}} : TRUE

\* import_csv (lines 682-753). file = [exists, headers, rows]: headers says
\* that the header row names both date and amount.
ImportCsvCall(d, file, dry_run, default_type, account_id) ==
    IF ~file.exists THEN Envelope(FALSE, NULL, d)
    ELSE IF ~file.headers THEN Envelope(FALSE, NULL, WithConn(d, Done(d, NULL)))
    ELSE CHOOSE out \in
             {IF st.raised THEN Envelope(FALSE, NULL, WithConn(d, st))
              ELSE Envelope(TRUE, [inserted |-> st.inserted, preview |-> st.preview],
                            WithConn(d, st)) :
                 st \in UNION {{ImportLoop(ImportState(FALSE, d, <<>>, 0), file.rows, rs,
                                            dry_run, default_type, account_id)} :
                                  rs \in {_load_rules(d)}}} : TRUE

\* mutant: the target set is the category and its children, one level deep
subtree_one_level(cats, ids) ==
    ids \cup {c \in DOMAIN cats : cats[c].parent_id \in ids}

\* delete_category: the recursive CTE `subtree` (lines 1110-1119)
RECURSIVE subtree(_, _)
subtree(cats, ids) ==
    LET more == ids \cup {c \in DOMAIN cats : cats[c].parent_id \in ids} IN
    IF more = ids THEN ids ELSE subtree(cats, more)

\* UPDATE transaction_splits SET category_id=? WHERE category_id IN (...)
ReassignSplits(d, target_ids, reassign_to_id) ==
    [d EXCEPT !.splits = [s \in DOMAIN @ |->
                             IF @[s].category_id \in target_ids
                             THEN [@[s] EXCEPT !.category_id = reassign_to_id] ELSE @[s]]]

\* delete_category (lines 1078-1165); every return lies inside the `with`
DeleteCategoryCall(d, id, reassign_to_id, include_descendants) ==
    IF id \notin DOMAIN d.categories THEN Envelope(FALSE, NULL, d)
    ELSE LET target_ids == IF include_descendants THEN subtree(d.categories, {id}) ELSE {id} IN
         IF reassign_to_id # NULL /\ reassign_to_id = id THEN Envelope(FALSE, NULL, d)
         ELSE IF reassign_to_id # NULL /\ reassign_to_id \notin DOMAIN d.categories
         THEN Envelope(FALSE, NULL, d)
         ELSE LET d1 == IF reassign_to_id # NULL
                        THEN ReassignSplits(d, target_ids, reassign_to_id) ELSE d
                  d2 == IF include_descendants
                        THEN DeleteCategoryRows(d1, subtree(d1.categories, {id}))
                        ELSE DeleteCategoryRows(d1, {id})
              IN  Envelope(TRUE, [affected_category_ids |-> target_ids,
                                  reassigned_to |-> reassign_to_id],
                           WithConn(d, Done(d2, NULL)))

\* UPDATE transactions SET account_id=? WHERE account_id=?
ReassignTransactions(d, id, reassign_to_id) ==
    [d EXCEPT !.transactions = [t \in DOMAIN @ |->
                                   IF @[t].account_id = id
                                   THEN [@[t] EXCEPT !.account_id = reassign_to_id] ELSE @[t]]]

\* delete_account (lines 971-1018)
DeleteAccountCall(d, id, reassign_to_id) ==
    IF id \notin DOMAIN d.accounts THEN Envelope(FALSE, NULL, d)
    ELSE IF reassign_to_id # NULL /\ reassign_to_id = id THEN Envelope(FALSE, NULL, d)
    ELSE IF reassign_to_id # NULL /\ reassign_to_id \notin DOMAIN d.accounts
    THEN Envelope(FALSE, NULL, d)
    ELSE LET d1 == IF reassign_to_id # NULL
                   THEN ReassignTransactions(d, id, reassign_to_id) ELSE d
         IN  Envelope(TRUE, [account_id |-> id, reassigned_to |-> reassign_to_id],
                      WithConn(d, Done(DeleteAccountRow(d1, id), NULL)))

\* add_category / add_account / add_rule / set_budget: one INSERT in a `with`
AddCategoryCall(d, name, parent_id) ==
    LET r == InsertCategory(d, name, parent_id) IN Envelope(~r.raised, r.id, WithConn(d, r))

AddAccountCall(d, name) ==
    LET r == InsertAccount(d, name) IN Envelope(~r.raised, r.id, WithConn(d, r))

AddRuleCall(d, when, set, priority, enabled) ==
    LET r == InsertRule(d, json_dumps(when), json_dumps(set), priority, enabled) IN
    Envelope(~r.raised, r.id, WithConn(d, r))

\* month_yyyymm is a text of len digits; re.match(r"^\d{6}$", ...) asks for six
SetBudgetCall(d, month_yyyymm, category_id, amount) ==
    LET amt == money(amount) IN
    IF month_yyyymm.len # 6 THEN Envelope(FALSE, NULL, d)
    ELSE IF amt.raised THEN Envelope(FALSE, NULL, d)
    ELSE LET r == UpsertBudget(d, month_yyyymm, category_id, amt.val) IN
         Envelope(~r.raised, NULL, WithConn(d, r))


\* ---------------------------------------------------------------- transaction upkeep
\* mutant: the key foo of a patch is let through
allowed_and_foo ==
    {"date", "amount", "account_id", "currency", "type", "merchant", "notes", "foo"}

\* update_transaction: the columns a patch may set (line 449)
allowed == {"date", "amount", "account_id", "currency", "type", "merchant", "notes"}

\* update_transaction, the loop over the patch (lines 451-456): a patch is a
\* function from its keys to their values; date and amount are converted.
Converted(fields, k) ==
    IF k = "date" THEN coerce_date(fields[k])
    ELSE IF k = "amount" THEN money(fields[k])
    ELSE [raised |-> FALSE, val |-> fields[k]]

\* UPDATE transactions SET ..., updated_at=datetime('now') WHERE id=?
\* The CHECK on type and the foreign key on account_id are tested on the row
\* that is written; with no such row nothing is tested. The id field of the
\* result is the cursor's rowcount.
UpdateTransactionRow(d, id, sets, fields) ==
    IF id \notin DOMAIN d.transactions THEN Done(d, 0)
    ELSE LET row == [k \in DOMAIN d.transactions[id] |->
                        IF k \in sets THEN Converted(fields, k).val
                        ELSE IF k = "updated_at" THEN d.now
                        ELSE d.transactions[id][k]]
         IN  IF row.type \notin TxTypes THEN Raise(d)
             ELSE IF row.account_id # NULL /\ row.account_id \notin DOMAIN d.accounts
             THEN Raise(d)
             ELSE Done([d EXCEPT !.transactions[id] = row], 1)

\* update_transaction (lines 445-466)
UpdateTransactionCall(d, id, fields) ==
    LET sets == DOMAIN fields \cap allowed IN
    IF \E k \in sets : Converted(fields, k).raised THEN Envelope(FALSE, NULL, d)
    ELSE IF sets = {} THEN Envelope(FALSE, NULL, d)
    ELSE LET r == UpdateTransactionRow(d, id, sets, fields) IN
         Envelope(~r.raised, [updated |-> r.id], WithConn(d, r))

\* DELETE FROM transactions WHERE id=?: transaction_splits.transaction_id
\* ON DELETE CASCADE
DeleteTransactionRow(d, id) ==
    [d EXCEPT !.transactions = Restrict(@, DOMAIN @ \ {id}),
              !.splits = Restrict(@, {s \in DOMAIN @ : @[s].transaction_id # id})]

\* delete_transaction (lines 470-474)
DeleteTransactionCall(d, id) ==
    Envelope(TRUE, [deleted |-> IF id \in DOMAIN d.transactions THEN 1 ELSE 0],
             WithConn(d, Done(DeleteTransactionRow(d, id), NULL)))

\* add_split (lines 477-490); a gst_rate of 0 is falsy and is not converted
\* for the tax amount, but float(gst_rate) is still stored
AddSplitCall(d, transaction_id, amount, category_id, gst_rate, tags) ==
    LET amt == money(amount)
        rate == float(gst_rate)
    IN  IF amt.raised \/ rate.raised THEN Envelope(FALSE, NULL, d)
        ELSE LET r == InsertSplit(d, transaction_id, category_id, amt.val, rate.val,
                                  GstAmount(amt.val, rate.val), tags) IN
             Envelope(~r.raised, r.id, WithConn(d, r))

\* delete_split (lines 493-497)
DeleteSplitCall(d, split_id) ==
    Envelope(TRUE, [deleted |-> IF split_id \in DOMAIN d.splits THEN 1 ELSE 0],
             WithConn(d, Done([d EXCEPT !.splits = Restrict(@, DOMAIN @ \ {split_id})], NULL)))

\* ---------------------------------------------------------------- summaries
\* The characters of a date text, as code points: the store compares TEXT
\* values character by character.
RECURSIVE Digits(_, _)
Digits(n, w) == IF w = 0 THEN <<>> ELSE Append(Digits(n \div 10, w - 1), 48 + (n % 10))

SepCode(sep) == IF sep = "-" THEN 45 ELSE 47

AsText(s) ==
    IF s.w = <<0, 0, 0>> THEN <<>>
    ELSE Digits(s.f[1], s.w[1]) \o <<SepCode(s.sep)>> \o Digits(s.f[2], s.w[2])
         \o <<SepCode(s.sep)>> \o Digits(s.f[3], s.w[3])
         \o (IF s.tail THEN <<84>> ELSE <<>>)

\* a <= b in the BINARY collation
RECURSIVE TextLeq(_, _)
TextLeq(a, b) ==
    IF a = <<>> THEN TRUE
    ELSE IF b = <<>> THEN FALSE
    ELSE IF Head(a) # Head(b) THEN Head(a) < Head(b)
    ELSE TextLeq(Tail(a), Tail(b))

\* x BETWEEN lo AND hi on TEXT values
Between(x, lo, hi) == TextLeq(AsText(lo), AsText(x)) /\ TextLeq(AsText(x), AsText(hi))

\* A column value that may be NULL
SqlNull == [null |-> TRUE, v |-> 0]
SqlVal(v) == [null |-> FALSE, v |-> v]
COALESCE(x, default) == IF x.null THEN default ELSE x.v

\* SUM(ts.amount) over the splits ids
RECURSIVE SumAmount(_, _)
SumAmount(d, ids) ==
    IF ids = {} THEN 0
    ELSE LET s == Min(ids) IN d.splits[s].amount + SumAmount(d, ids \ {s})

\* get_budget_summary, the CTE `actuals` (lines 590-596): the splits joined
\* to their transactions, of type expense and dated from start to end
ActualSplits(d, start, end) ==
    {s \in DOMAIN d.splits :
        /\ d.splits[s].transaction_id \in DOMAIN d.transactions
        /\ d.transactions[d.splits[s].transaction_id].type = "expense"
        /\ Between(d.transactions[d.splits[s].transaction_id].date, start, end)}

\* the rows of a LEFT JOIN for one left row: the matches, or one NULL
LeftJoin(matches) == IF matches = {} THEN {SqlNull} ELSE matches

\* get_budget_summary, the SELECT (lines 597-604), without its ORDER BY: the
\* result is the set of its rows
BudgetRows(d, month, start, end) ==
    LET joined == ActualSplits(d, start, end) IN
    UNION {{[category_id |-> cat, category_name |-> d.categories[cat].name,
             budget_amount |-> b, actual_spent |-> COALESCE(a, 0),
             variance |-> COALESCE(b, 0) - COALESCE(a, 0)] :
               b \in LeftJoin({SqlVal(x.amount) :
                                 x \in {y \in d.budgets : /\ y.category_id = cat
                                                          /\ y.month_yyyymm = month}}),
               a \in LeftJoin({SqlVal(SumAmount(d, {s \in joined :
                                                       d.splits[s].category_id = g})) :
                                 g \in {d.splits[s].category_id : s \in joined} \cap {cat}})} :
           cat \in DOMAIN d.categories}

\* get_budget_summary (lines 580-610). datetime(y, m, 1) raises outside years
\* 1..9999 and months 1..12; month 12 builds datetime(y+1, 1, 1).
GetBudgetSummaryCall(d, month_yyyymm) ==
    LET y == month_yyyymm.ym \div 100
        m == month_yyyymm.ym % 100
    IN  IF month_yyyymm.len # 6 THEN Envelope(FALSE, NULL, d)
        ELSE IF y < 1 \/ m \notin 1..12 \/ (m = 12 /\ y = 9999) THEN Envelope(FALSE, NULL, d)
        ELSE Envelope(TRUE,
                      BudgetRows(d, month_yyyymm, strftime(y, m, 1),
                                 strftime(y, m, DaysIn(y, m))),
                      WithConn(d, Done(d, NULL)))

\* ---------------------------------------------------------------- forecast
\* forecast_cashflow, `start` (line 932): the first of this month less 180
\* days is the 2nd to 5th day of the sixth month before, and replace(day=1)
\* gives the first day of that month. today = [y, m] is the month of
\* datetime.now().
ForecastStart(today) ==
    IF today.m > 6 THEN strftime(today.y, today.m - 6, 1)
    ELSE strftime(today.y - 1, today.m + 6, 1)

\* substr(t.date, 1, 7)
Substr7(date) == LET t == AsText(date) IN SubSeq(t, 1, IF Len(t) < 7 THEN Len(t) ELSE 7)

\* the splits joined to their transactions WHERE t.date >= start
HistorySplits(d, start) ==
    {s \in DOMAIN d.splits :
        /\ d.splits[s].transaction_id \in DOMAIN d.transactions
        /\ TextLeq(AsText(start), AsText(d.transactions[d.splits[s].transaction_id].date))}

\* SUM(CASE WHEN t.type = type THEN ts.amount ELSE 0 END) over the splits ids
SumOfType(d, ids, type) ==
    SumAmount(d, {s \in ids : d.transactions[d.splits[s].transaction_id].type = type})

\* the CTE `monthly` and the SELECT over it (lines 937-950), as a set of rows
MonthlyRows(d, start) ==
    LET joined == HistorySplits(d, start) IN
    {LET grp == {s \in joined : Substr7(d.transactions[d.splits[s].transaction_id].date) = ym}
         inc == SumOfType(d, grp, "income")
         exp == SumOfType(d, grp, "expense")
     IN  [ym |-> ym, inc |-> inc, exp |-> exp, net |-> inc - exp] :
        ym \in {Substr7(d.transactions[d.splits[s].transaction_id].date) : s \in joined}}

\* hist[-1] under ORDER BY ym ASC
LastRow(hist) == CHOOSE r \in hist : \A q \in hist : TextLeq(q.ym, r.ym)

IsDigit(c) == c >= 48 /\ c <= 57

\* datetime.strptime(ym + "-01", "%Y-%m-%d"): ym must be four digits, a
\* hyphen and a month of 01..12, the year at least 1
ParseYm(ym) ==
    IF /\ Len(ym) = 7
       /\ \A i \in {1, 2, 3, 4, 6, 7} : IsDigit(ym[i])
       /\ ym[5] = 45
    THEN LET y == (ym[1] - 48) * 1000 + (ym[2] - 48) * 100 + (ym[3] - 48) * 10 + (ym[4] - 48)
             m == (ym[6] - 48) * 10 + (ym[7] - 48)
         IN  [raised |-> y < 1 \/ m \notin 1..12, y |-> y, m |-> m]
    ELSE [raised |-> TRUE, y |-> 0, m |-> 0]

RECURSIVE SumNet(_)
SumNet(hist) ==
    IF hist = {} THEN 0
    ELSE LET r == CHOOSE x \in hist : TRUE IN r.net + SumNet(hist \ {r})

\* round(avg_net, 2), in hundredths: the hundredth nearest to total / n
\* (no quotient of the runs below lies halfway between two hundredths)
RoundedMean(total, n) == (200 * total + n) \div (2 * n)

\* the month i months after month m of year y
MonthAfter(y, m, i) == [y |-> y + ((m - 1 + i) \div 12), m |-> ((m - 1 + i) % 12) + 1]

\* max(1, min(24, int(months)))
Horizon(n) == IF n < 1 THEN 1 ELSE IF n > 24 THEN 24 ELSE n

\* forecast_cashflow (lines 927-970); net is in hundredths
ForecastCashflowCall(d, months, today) ==
    IF ~months.num THEN Envelope(FALSE, NULL, d)
    ELSE \* the read-only `with get_conn()` block is left before the projection
         CHOOSE out \in
             {IF hist = {} THEN Envelope(TRUE, [history |-> {}, forecast |-> <<>>], d)
              ELSE LET last_ym == ParseYm(LastRow(hist).ym) IN
                   IF last_ym.raised THEN Envelope(FALSE, NULL, d)
                   ELSE Envelope(TRUE,
                                 [history |-> hist,
                                  forecast |->
                                     [i \in 1..Horizon(months.v) |->
                                         [month |-> MonthAfter(last_ym.y, last_ym.m, i),
                                          net |-> RoundedMean(SumNet(hist),
                                                              Cardinality(hist))]]],
                                 d) :
                 hist \in {MonthlyRows(d, ForecastStart(today))}} : TRUE

\* ---------------------------------------------------------------- summary
\* summary, the FROM and WHERE shared by the five queries (lines 626-668):
\* the splits joined to their transactions, dated from start to end
RangeSplits(d, start, end) ==
    {s \in DOMAIN d.splits :
        /\ d.splits[s].transaction_id \in DOMAIN d.transactions
        /\ Between(d.transactions[d.splits[s].transaction_id].date, start, end)}

\* The GROUP BY value of split s under each grouping
GroupOf(d, s, group_by) ==
    LET t == d.transactions[d.splits[s].transaction_id] IN
    IF group_by = "category"
    THEN (IF d.splits[s].category_id \in DOMAIN d.categories
          THEN SqlVal(d.splits[s].category_id) ELSE SqlNull)
    ELSE IF group_by = "month" THEN Substr7(t.date)
    ELSE IF group_by = "merchant" THEN t.merchant
    ELSE IF group_by = "account"
    THEN (IF t.account_id \in DOMAIN d.accounts
          THEN [null |-> FALSE, v |-> d.accounts[t.account_id].name]
          ELSE [null |-> TRUE, v |-> ""])
    ELSE t.type

\* The key column of the group: COALESCE(cat.name, 'Uncategorized') for
\* categories, the GROUP BY value itself for the others
KeyOf(d, g, group_by) ==
    IF group_by = "category"
    THEN (IF g.null THEN "Uncategorized" ELSE d.categories[g.v].name)
    ELSE g

\* mutant: a group's total is the gross amount of the transactions of its splits
GroupedRowsGross(d, ids, group_by) ==
    LET groups == {GroupOf(d, s, group_by) : s \in ids}
        gross(S) == LET RECURSIVE Sum(_)
                        Sum(T) == IF T = {} THEN 0
                                  ELSE LET s == Min(T) IN
                                       d.transactions[d.splits[s].transaction_id].amount
                                       + Sum(T \ {s})
                    IN  Sum(S)
        row(g) == [key |-> KeyOf(d, g, group_by),
                   total |-> gross({s \in ids : GroupOf(d, s, group_by) = g})]
    IN  [r \in {row(g) : g \in groups} |-> Cardinality({g \in groups : row(g) = r})]

\* The rows of a query, as the list dict_rows returns without its order: a
\* bag of [key, total] records, one for each group
GroupedRows(d, ids, group_by) ==
    LET groups == {GroupOf(d, s, group_by) : s \in ids}
        row(g) == [key |-> KeyOf(d, g, group_by),
                   total |-> SumAmount(d, {s \in ids : GroupOf(d, s, group_by) = g})]
    IN  [r \in {row(g) : g \in groups} |-> Cardinality({g \in groups : row(g) = r})]

GroupBys == {"category", "month", "merchant", "account", "type"}

\* summary (lines 614-678)
SummaryCall(d, start_date, end_date, group_by) ==
    LET s == coerce_date(start_date)
        e == coerce_date(end_date)
    IN  IF s.raised \/ e.raised THEN Envelope(FALSE, NULL, d)
        ELSE IF group_by \notin GroupBys THEN Envelope(FALSE, NULL, d)
        ELSE Envelope(TRUE, GroupedRows(d, RangeSplits(d, s.val, e.val), group_by),
                      WithConn(d, Done(d, NULL)))

\* ---------------------------------------------------------------- seeding
\* The categories file (line 21): whether it exists, whether it is JSON,
\* whether the JSON value is an object, and the object's items in file order.
\* An item maps a parent name to a list of child names, or to a non-list.
SeedFile(exists, parses, object, items) ==
    [exists |-> exists, parses |-> parses, object |-> object, items |-> items]

Item(parent_name, isList, child_list) ==
    [parent_name |-> parent_name, isList |-> isList, child_list |-> child_list]

\* INSERT OR IGNORE INTO categories(name, parent_id): a row that collides on
\* UNIQUE(name, parent_id) is skipped. NULLs are distinct in the index, so a
\* root never collides. The skipped row has taken its AUTOINCREMENT id.
InsertOrIgnoreCategory(d, name, parent_id) ==
    LET id == d.seq.categories + 1 IN
    IF /\ parent_id # NULL
       /\ \E c \in DOMAIN d.categories :
              d.categories[c].name = name /\ d.categories[c].parent_id = parent_id
    THEN [d EXCEPT !.seq.categories = id]
    ELSE [d EXCEPT !.categories = @ @@ (id :> [name |-> name, parent_id |-> parent_id]),
                   !.seq.categories = id]

\* seed_categories_from_file, `for child_name in child_list:` (lines 1287-1289)
RECURSIVE SeedChildren(_, _, _)
SeedChildren(d, parent_id, child_list) ==
    IF child_list = <<>> THEN d
    ELSE SeedChildren(InsertOrIgnoreCategory(d, Head(child_list), parent_id), parent_id,
                      Tail(child_list))

SeedState(stopped, d, parents, children) ==
    [stopped |-> stopped, db |-> d, parents |-> parents, children |-> children]

\* seed_categories_from_file, `for parent_name, child_list in data.items():`
\* (lines 1274-1289); fetchone takes the first root of that name
RECURSIVE SeedLoop(_, _)
SeedLoop(st, items) ==
    IF items = <<>> THEN st
    ELSE IF ~Head(items).isList THEN [st EXCEPT !.stopped = TRUE]
    ELSE CHOOSE out \in
             {SeedLoop(SeedState(FALSE,
                                 SeedChildren(d1, ResolveCategory(d1, Head(items).parent_name),
                                              Head(items).child_list),
                                 st.parents + 1, st.children + Len(Head(items).child_list)),
                       Tail(items)) :
                 d1 \in {InsertOrIgnoreCategory(st.db, Head(items).parent_name, NULL)}} : TRUE

\* seed_categories_from_file (lines 1247-1294). The block is
\* `with sqlite3.connect(DB_PATH) as c`, which commits when it is left by a
\* return, the return of the non-list error included.
SeedCategoriesCall(d, file, reset) ==
    IF ~file.exists \/ ~file.parses \/ ~file.object THEN Envelope(FALSE, NULL, d)
    ELSE CHOOSE out \in
             {IF st.stopped THEN Envelope(FALSE, NULL, st.db)
              ELSE Envelope(TRUE, [parents_processed |-> st.parents,
                                   children_processed |-> st.children, reset |-> reset],
                            st.db) :
                 st \in {SeedLoop(SeedState(FALSE,
                                            IF reset
                                            THEN DeleteCategoryRows(d, DOMAIN d.categories)
                                            ELSE d, 0, 0),
                                  file.items)}} : TRUE

\* ---------------------------------------------------------------- goals
\* goals_set (lines 873-887): INSERT ... ON CONFLICT(name) DO UPDATE
GoalsSetCall(d, name, target_amount, target_date) ==
    LET dt == coerce_date(target_date)
        amt == money(target_amount)
    IN  IF dt.raised \/ amt.raised THEN Envelope(FALSE, NULL, d)
        ELSE Envelope(TRUE, NULL,
                      WithConn(d, Done([d EXCEPT !.goals =
                                           {g \in @ : g.name # name}
                                           \cup {[name |-> name, target_amount |-> amt.val,
                                                  target_date |-> dt.val]}], NULL)))

\* goals_delete (lines 1225-1245); the empty name stands for None, "" and blanks
GoalsDeleteCall(d, name, delete_all) ==
    IF delete_all
    THEN Envelope(TRUE, [deleted |-> Cardinality(d.goals), mode |-> "all"],
                  WithConn(d, Done([d EXCEPT !.goals = {}], NULL)))
    ELSE IF name = "" THEN Envelope(FALSE, NULL, d)
    ELSE Envelope(TRUE, [deleted |-> Cardinality({g \in d.goals : g.name = name}),
                         mode |-> "by_name"],
                  WithConn(d, Done([d EXCEPT !.goals = {g \in @ : g.name # name}], NULL)))


\* ---------------------------------------------------------------- state machine
\* init_db() on a new file: the tables are empty except the seeded account.
FreshDB ==
    [accounts |-> (1 :> [name |-> "Cash"]), categories |-> <<>>, transactions |-> <<>>,
     splits |-> <<>>, budgets |-> {}, rules |-> <<>>, goals |-> {},
     seq |-> [accounts |-> 1, categories |-> 0, transactions |-> 0, splits |-> 0, rules |-> 0],
     now |-> 0]

\* init_db() on a file that already holds a rule row whose JSON text is not
\* parseable (CREATE TABLE IF NOT EXISTS keeps the rows of an existing file;
\* when_json and set_json are plain TEXT columns).
Garbage(obj) == [parses |-> FALSE, obj |-> obj]

BadWhenRow ==
    [when_json |-> Garbage(EmptyWhen),
     set_json |-> json_dumps(Overrides({"tags"}, NULL, "bad", Num(0))),
     priority |-> 15, enabled |-> TRUE]

BadSetRow ==
    [when_json |-> json_dumps(EmptyWhen),
     set_json |-> Garbage(Overrides({"tags"}, NULL, "bad", Num(0))),
     priority |-> 15, enabled |-> TRUE]

WithRuleRow(d, row) == [d EXCEPT !.rules = (1 :> row), !.seq.rules = 1]

InitDBs == {FreshDB, WithRuleRow(FreshDB, BadWhenRow), WithRuleRow(FreshDB, BadSetRow)}

Commit(d) ==
    /\ accounts' = d.accounts
    /\ categories' = d.categories
    /\ transactions' = d.transactions
    /\ splits' = d.splits
    /\ budgets' = d.budgets
    /\ rules' = d.rules
    /\ goals' = d.goals
    /\ seq' = d.seq
    /\ now' = d.now

\* last records the call just served: its name, arguments, envelope and the
\* tables as they were when it was received.
Serve(op, args, env) ==
    \E e \in {env} :
        /\ Commit(e.db)
        /\ last' = [op |-> op, args |-> args, ok |-> e.ok, data |-> e.data, pre |-> DB]

Init ==
    \E d \in InitDBs :
        /\ accounts = d.accounts
        /\ categories = d.categories
        /\ transactions = d.transactions
        /\ splits = d.splits
        /\ budgets = d.budgets
        /\ rules = d.rules
        /\ goals = d.goals
        /\ seq = d.seq
        /\ now = d.now
        /\ last = [op |-> "init_db", args |-> <<>>, ok |-> TRUE, data |-> NULL, pre |-> d]

add_account(name) ==
    /\ seq.accounts < MaxAccounts
    /\ Serve("add_account", [name |-> name], AddAccountCall(DB, name))

add_category(name, parent_id) ==
    /\ seq.categories < MaxCats
    /\ Serve("add_category", [name |-> name, parent_id |-> parent_id],
             AddCategoryCall(DB, name, parent_id))

add_rule(when, set, priority, enabled) ==
    /\ seq.rules < MaxRules
    /\ Serve("add_rule", [when |-> when, set |-> set, priority |-> priority,
                          enabled |-> enabled],
             AddRuleCall(DB, when, set, priority, enabled))

add_transaction(date, amount, type, account_id, merchant, splitList, apply_rules) ==
    /\ seq.transactions < MaxTx
    /\ Serve("add_transaction",
             [date |-> date, amount |-> amount, type |-> type, account_id |-> account_id,
              merchant |-> merchant, splits |-> splitList, apply_rules |-> apply_rules],
             AddTransactionCall(DB, date, amount, type, account_id, "INR", merchant, "",
                                splitList, apply_rules))

import_csv(file, dry_run, default_type, account_id) ==
    /\ Len(file.rows) <= MaxRows
    /\ dry_run \/ seq.transactions + Len(file.rows) <= MaxTx
    /\ Serve("import_csv",
             [file |-> file, dry_run |-> dry_run, default_type |-> default_type,
              account_id |-> account_id],
             ImportCsvCall(DB, file, dry_run, default_type, account_id))

\* The recursive CTE of delete_category is a UNION ALL: from a category whose
\* subtree holds a category that is its own ancestor it yields rows without
\* end, and the call does not return.
Endless(cats, id) ==
    \E c \in subtree(cats, {id}) :
        c \in subtree(cats, {k \in DOMAIN cats : cats[k].parent_id = c})

delete_category(id, reassign_to_id, include_descendants) ==
    /\ ~(include_descendants /\ id \in DOMAIN categories /\ Endless(categories, id))
    /\ Serve("delete_category",
             [id |-> id, reassign_to_id |-> reassign_to_id,
              include_descendants |-> include_descendants],
             DeleteCategoryCall(DB, id, reassign_to_id, include_descendants))

delete_account(id, reassign_to_id) ==
    Serve("delete_account", [id |-> id, reassign_to_id |-> reassign_to_id],
          DeleteAccountCall(DB, id, reassign_to_id))

update_transaction(id, fields) ==
    Serve("update_transaction", [id |-> id, fields |-> fields],
          UpdateTransactionCall(DB, id, fields))

delete_transaction(id) ==
    Serve("delete_transaction", [id |-> id], DeleteTransactionCall(DB, id))

add_split(transaction_id, amount, category_id, gst_rate, tags) ==
    /\ seq.splits < MaxSplits
    /\ Serve("add_split",
             [transaction_id |-> transaction_id, amount |-> amount,
              category_id |-> category_id, gst_rate |-> gst_rate, tags |-> tags],
             AddSplitCall(DB, transaction_id, amount, category_id, gst_rate, tags))

delete_split(split_id) ==
    Serve("delete_split", [split_id |-> split_id], DeleteSplitCall(DB, split_id))

goals_set(name, target_amount, target_date) ==
    /\ Cardinality(goals) < MaxGoals
    /\ Serve("goals_set",
             [name |-> name, target_amount |-> target_amount, target_date |-> target_date],
             GoalsSetCall(DB, name, target_amount, target_date))

goals_delete(name, delete_all) ==
    Serve("goals_delete", [name |-> name, delete_all |-> delete_all],
          GoalsDeleteCall(DB, name, delete_all))

\* A second passes between two calls
tick ==
    /\ now < MaxClock
    /\ Serve("tick", <<>>, Envelope(TRUE, NULL, [DB EXCEPT !.now = @ + 1]))

\* Rows a seeding run asks the store to insert
RECURSIVE SeedRows(_)
SeedRows(items) ==
    IF items = <<>> THEN 0
    ELSE (IF Head(items).isList THEN 1 + Len(Head(items).child_list) ELSE 0)
         + SeedRows(Tail(items))

seed_categories_from_file(file, reset) ==
    /\ seq.categories + SeedRows(file.items) <= MaxCats
    /\ Serve("seed_categories_from_file", [file |-> file, reset |-> reset],
             SeedCategoriesCall(DB, file, reset))

summary(start_date, end_date, group_by) ==
    Serve("summary", [start_date |-> start_date, end_date |-> end_date, group_by |-> group_by],
          SummaryCall(DB, start_date, end_date, group_by))

forecast_cashflow(months, today) ==
    Serve("forecast_cashflow", [months |-> months, today |-> today],
          ForecastCashflowCall(DB, months, today))

set_budget(month_yyyymm, category_id, amount) ==
    Serve("set_budget",
          [month_yyyymm |-> month_yyyymm, category_id |-> category_id, amount |-> amount],
          SetBudgetCall(DB, month_yyyymm, category_id, amount))

get_budget_summary(month_yyyymm) ==
    Serve("get_budget_summary", [month_yyyymm |-> month_yyyymm],
          GetBudgetSummaryCall(DB, month_yyyymm))


\* ---------------------------------------------------------------- inputs
GoodDate == Canonical(2024, 1, 15)
SlashDate == DateText(15, 2, 1, 2, 2024, 4, "/", FALSE)
BadDate == DateText(13, 2, 45, 2, 2024, 4, "/", FALSE)

Jan2024 == [len |-> 6, ym |-> 202401]

MerchantAb == <<"A", "b">>
NoMerchant == <<>>
Merchants == {MerchantAb, NoMerchant}

Rule(when, set, priority, enabled) ==
    [when |-> when, set |-> set, priority |-> priority, enabled |-> enabled]

RuleA == Rule(When({"merchant_regex"}, <<"a">>, Num(0), Num(0), ""),
              Overrides({"category_id", "tags"}, 1, "t1", Num(0)), 10, TRUE)
RuleB == Rule(When({"merchant_regex"}, <<"B">>, Num(0), Num(0), ""),
              Overrides({"category_id"}, 2, "", Num(0)), 20, TRUE)
RuleAll == Rule(EmptyWhen, Overrides({"tags", "gst_rate"}, NULL, "t3", Num(5)), 10, TRUE)
RuleBadRegex == Rule(When({"merchant_regex"}, <<"(">>, Num(0), Num(0), ""),
                     Overrides({"tags"}, NULL, "t4", Num(0)), 20, TRUE)
RuleBadMin == Rule(When({"amount_min"}, <<>>, NaN, Num(0), ""),
                   Overrides({"tags"}, NULL, "t5", Num(0)), 20, TRUE)
RuleBadGst == Rule(EmptyWhen, Overrides({"gst_rate"}, NULL, "", NaN), 20, TRUE)
RuleOff == Rule(EmptyWhen, Overrides({"tags"}, NULL, "off", Num(0)), 30, FALSE)

RuleInputs == {RuleA, RuleB, RuleAll, RuleBadRegex, RuleBadMin, RuleBadGst, RuleOff}

Split(amount, category_id, gst_rate, tags) ==
    [amount |-> amount, category_id |-> category_id, gst_rate |-> gst_rate, tags |-> tags]

\* ---------------------------------------------------------------- rule engine runs
RuleCats == 2
RuleTxs == 1

NextRules ==
    \/ \E r \in RuleInputs : add_rule(r.when, r.set, r.priority, r.enabled)
    \/ seq.categories < RuleCats /\ add_category("Food", NULL)
    \/ \E m \in Merchants, sl \in {<<>>, <<Split(Num(4), NULL, Num(0), "")>>},
          ar \in BOOLEAN :
          /\ seq.transactions < RuleTxs
          /\ add_transaction(GoodDate, Num(10), "expense", NULL, m, sl, ar)

SpecRules == Init /\ [][NextRules]_vars


\* ---------------------------------------------------------------- properties: rule engine
\* The rules of store d that are enabled and whose two JSON columns parse
LiveRules(d) ==
    {id \in DOMAIN d.rules :
        d.rules[id].enabled /\ d.rules[id].when_json.parses /\ d.rules[id].set_json.parses}

\* The enabled rules of store d with a JSON column that does not parse
MalformedRules(d) == {id \in DOMAIN d.rules : d.rules[id].enabled} \ LiveRules(d)

WhenOf(d, id) == d.rules[id].when_json.obj
SetOf(d, id) == d.rules[id].set_json.obj

\* A rule whose predicate can be evaluated and whose overrides can be stored
SoundRule(d, id) ==
    /\ "merchant_regex" \in WhenOf(d, id).has => Compiles(WhenOf(d, id).merchant_regex)
    /\ "amount_min" \in WhenOf(d, id).has => WhenOf(d, id).amount_min.num
    /\ "amount_max" \in WhenOf(d, id).has => WhenOf(d, id).amount_max.num
    /\ "gst_rate" \in SetOf(d, id).has => SetOf(d, id).gst_rate.num
    /\ "category_id" \in SetOf(d, id).has =>
           SetOf(d, id).category_id \in DOMAIN d.categories \cup {NULL}

\* The live rules that match trn and set key
Setters(d, trn, key) ==
    {id \in LiveRules(d) :
        /\ ~RuleMatch(WhenOf(d, id), trn).raised
        /\ RuleMatch(WhenOf(d, id), trn).val
        /\ key \in SetOf(d, id).has}

\* Among ids, the rule with the largest priority number, the largest id
\* among equal priorities
Dominant(d, ids) ==
    CHOOSE id \in ids : \A o \in ids :
        \/ d.rules[o].priority < d.rules[id].priority
        \/ d.rules[o].priority = d.rules[id].priority /\ o <= id

\* add_transaction was served, classified the gross amount and succeeded
ClassifiedTx ==
    /\ last.op = "add_transaction"
    /\ last.ok
    /\ last.args.splits = <<>>
    /\ last.args.apply_rules

LastTrn ==
    Trn(coerce_date(last.args.date).val, last.args.amount.v, last.args.type,
        last.args.merchant, "")

NewSplit == splits[seq.splits]

\* C2: classification merges the overrides of the matching rules in ascending
\* priority, ties in id order, last write wins per field: each field of the
\* split that add_transaction synthesizes holds the value of the matching rule
\* with the largest priority number (largest id among equals) that sets it,
\* and the default when no matching rule sets it.
C2_LastWriteWins ==
    ClassifiedTx =>
        LET d == last.pre
            cat == Setters(d, LastTrn, "category_id")
            tag == Setters(d, LastTrn, "tags")
            gst == Setters(d, LastTrn, "gst_rate")
        IN  /\ NewSplit.category_id =
                   (IF cat = {} THEN NULL ELSE SetOf(d, Dominant(d, cat)).category_id)
            /\ NewSplit.tags = (IF tag = {} THEN "" ELSE SetOf(d, Dominant(d, tag)).tags)
            /\ NewSplit.gst_rate =
                   (IF gst = {} THEN 0 ELSE SetOf(d, Dominant(d, gst)).gst_rate.v)

\* Two matching rules set different categories, the one with the larger
\* priority number was stored first, and a tag comes from the other rule.
C2_Witness ==
    /\ ClassifiedTx
    /\ \E hi, lo \in Setters(last.pre, LastTrn, "category_id") :
           /\ hi < lo
           /\ last.pre.rules[hi].priority > last.pre.rules[lo].priority
           /\ SetOf(last.pre, hi).category_id # SetOf(last.pre, lo).category_id
           /\ NewSplit.category_id = SetOf(last.pre, hi).category_id
           /\ "tags" \in SetOf(last.pre, lo).has
           /\ NewSplit.tags = SetOf(last.pre, lo).tags

WithoutRules(d, ids) == [d EXCEPT !.rules = Restrict(@, DOMAIN @ \ ids)]

ReplayAddTransaction(d) ==
    AddTransactionCall(d, last.args.date, last.args.amount, last.args.type,
                       last.args.account_id, "INR", last.args.merchant, "",
                       last.args.splits, last.args.apply_rules)

\* C9: an enabled rule row whose JSON does not parse is skipped: add_transaction
\* ends exactly as it would on the same store without that row (same envelope,
\* same transaction and split rows, same overrides), and it succeeds when the
\* remaining rules are sound.
C9_MalformedSkipped ==
    (last.op = "add_transaction" /\ MalformedRules(last.pre) # {}) =>
        LET clean == WithoutRules(last.pre, MalformedRules(last.pre))
            base == ReplayAddTransaction(clean)
        IN  /\ _load_rules(last.pre) = _load_rules(clean)
            /\ last.ok = base.ok
            /\ transactions = base.db.transactions
            /\ splits = base.db.splits
            /\ (\A id \in LiveRules(last.pre) : SoundRule(last.pre, id)) => last.ok

\* A malformed row is stored, another rule matched, and its tag was stored.
C9_Witness ==
    /\ ClassifiedTx
    /\ MalformedRules(last.pre) # {}
    /\ \E id \in Setters(last.pre, LastTrn, "tags") : NewSplit.tags = SetOf(last.pre, id).tags

\* C10: whatever rules add_rule accepted, add_transaction with a valid date,
\* amount and type and apply_rules=True succeeds. (Stated for stores whose
\* rules name existing categories only.)
C10_CorruptRuleCannotBlock ==
    ( /\ last.op = "add_transaction"
      /\ last.args.apply_rules
      /\ ~coerce_date(last.args.date).raised
      /\ last.args.amount.num
      /\ last.args.type \in TxTypes
      /\ \A id \in LiveRules(last.pre) :
             "category_id" \in SetOf(last.pre, id).has =>
                 SetOf(last.pre, id).category_id \in DOMAIN last.pre.categories )
    => (last.ok /\ DOMAIN transactions # DOMAIN last.pre.transactions)


\* ---------------------------------------------------------------- import runs
Row(date, amount, merchant, category_name, tags) ==
    [date |-> date, amount |-> amount, merchant |-> merchant, notes |-> "",
     category_name |-> category_name, tags |-> tags]

GoodRow == Row(GoodDate, Num(10), MerchantAb, "Food", "")
SlashRow == Row(SlashDate, Num(5), NoMerchant, "", "x")
BadAmountRow == Row(GoodDate, NaN, MerchantAb, "", "")
BadDateRow == Row(BadDate, Num(7), NoMerchant, "", "")

\* Files: valid rows (GoodRow and SlashRow in turn), with at most one invalid
\* row at any position.
ValidRows(from, n) == [i \in 1..n |-> IF (from + i) % 2 = 0 THEN GoodRow ELSE SlashRow]

File(exists, headers, rows) == [exists |-> exists, headers |-> headers, rows |-> rows]

FileInputs ==
    {File(TRUE, TRUE, ValidRows(1, n)) : n \in 0..MaxRows}
    \cup {File(TRUE, TRUE, ValidRows(1, n) \o <<b>> \o ValidRows(n + 2, m)) :
             n \in 0..(MaxRows - 1), m \in 0..(MaxRows - 1), b \in {BadAmountRow, BadDateRow}}
    \cup {File(FALSE, TRUE, <<>>), File(TRUE, FALSE, <<GoodRow>>)}

ImportRules == 1
ImportCats == 1

NextImport ==
    \/ \E r \in {RuleA, RuleBadRegex} :
          seq.rules < ImportRules /\ add_rule(r.when, r.set, r.priority, r.enabled)
    \/ seq.categories < ImportCats /\ add_category("Food", NULL)
    \/ \E f \in FileInputs, dry_run \in BOOLEAN : import_csv(f, dry_run, "expense", NULL)

SpecImport == Init /\ [][NextImport]_vars


\* ---------------------------------------------------------------- properties: import
RowValid(row) == ~coerce_date(row.date).raised /\ row.amount.num

\* The position of the first row that fails validation, 0 when none does
FirstBad(rows) ==
    IF \A i \in 1..Len(rows) : RowValid(rows[i]) THEN 0
    ELSE Min({i \in 1..Len(rows) : ~RowValid(rows[i])})

ReplayImport(d, rows) ==
    ImportCsvCall(d, File(TRUE, TRUE, rows), last.args.dry_run, last.args.default_type,
                  last.args.account_id)

\* import_csv was served in commit mode on a file whose row k >= 2 fails
\* validation, and rows 1..k-1 alone import without error
CommitFailedAtRow ==
    /\ last.op = "import_csv"
    /\ ~last.args.dry_run
    /\ last.args.file.exists /\ last.args.file.headers
    /\ FirstBad(last.args.file.rows) >= 2
    /\ ReplayImport(last.pre, SubSeq(last.args.file.rows, 1,
                                     FirstBad(last.args.file.rows) - 1)).ok

RowsBeforeBad ==
    ReplayImport(last.pre, SubSeq(last.args.file.rows, 1, FirstBad(last.args.file.rows) - 1)).db

FullyValid(file) ==
    file.exists /\ file.headers /\ \A i \in 1..Len(file.rows) : RowValid(file.rows[i])

\* The preview entry that row resolves to on store d
Resolved(d, row, default_type) ==
    LET trn == Trn(coerce_date(row.date).val, row.amount.v, default_type, row.merchant,
                   row.notes)
        cat == Setters(d, trn, "category_id")
        tag == Setters(d, trn, "tags")
    IN  [date |-> coerce_date(row.date).val,
         amount |-> row.amount.v,
         type |-> default_type,
         merchant |-> row.merchant,
         category_id |-> IF cat = {} THEN ResolveCategory(d, row.category_name)
                         ELSE SetOf(d, Dominant(d, cat)).category_id,
         tags |-> IF row.tags # "" THEN row.tags
                  ELSE IF tag = {} THEN "" ELSE SetOf(d, Dominant(d, tag)).tags]

PreviewMatches(entry, want) ==
    /\ entry.date = want.date
    /\ entry.amount = want.amount
    /\ entry.type = want.type
    /\ entry.merchant = want.merchant
    /\ entry.category_id = want.category_id
    /\ entry.tags = want.tags

\* C8: import_csv in dry-run mode leaves every table as it was, whatever the
\* file; for a fully valid file the preview it returns holds one resolved
\* entry per row, in file order, and it is returned whenever the stored rules
\* are sound.
C8_DryRunPersistsNothing ==
    (last.op = "import_csv" /\ last.args.dry_run) =>
        /\ DB = last.pre
        /\ (FullyValid(last.args.file) /\ last.ok) =>
               /\ Len(last.data.preview) = Len(last.args.file.rows)
               /\ last.data.inserted = 0
               /\ \A i \in 1..Len(last.args.file.rows) :
                      PreviewMatches(last.data.preview[i],
                                     Resolved(last.pre, last.args.file.rows[i],
                                              last.args.default_type))
        /\ ( /\ FullyValid(last.args.file)
             /\ \A id \in LiveRules(last.pre) : SoundRule(last.pre, id) ) => last.ok

\* A dry run of a valid file of several rows on a store that already holds
\* transactions returned its preview.
C8_Witness ==
    /\ last.op = "import_csv" /\ last.args.dry_run
    /\ last.ok
    /\ Len(last.args.file.rows) >= 2
    /\ Len(last.data.preview) = Len(last.args.file.rows)
    /\ DOMAIN last.pre.transactions # {}
    /\ DB = last.pre


\* ---------------------------------------------------------------- category tree runs
\* One split of amount 4 for every category of ids, in id order
RECURSIVE SplitPerCategory(_)
SplitPerCategory(ids) ==
    IF ids = {} THEN <<>>
    ELSE <<Split(Num(4), Min(ids), Num(0), "")>> \o SplitPerCategory(ids \ {Min(ids)})

\* A split without category, then one split per category of store d
SplitsOnAll(d) ==
    <<Split(Num(6), NULL, Num(0), "")>> \o SplitPerCategory(DOMAIN d.categories)

\* The stores that up to n calls of add_category leave behind. A root is
\* named Food; so is the first child of a category, the second is named Fuel.
HasChild(d, p, name) ==
    \E c \in DOMAIN d.categories :
        d.categories[c].parent_id = p /\ d.categories[c].name = name

RECURSIVE Forests(_)
Forests(n) ==
    IF n = 0 THEN {FreshDB}
    ELSE UNION {{d}
                \cup {AddCategoryCall(d, "Food", p).db : p \in DOMAIN d.categories \cup {NULL}}
                \cup {AddCategoryCall(d, "Fuel", p).db :
                         p \in {c \in DOMAIN d.categories : HasChild(d, c, "Food")}} :
                d \in Forests(n - 1)}

\* set_budget of 500 for January 2024 on every category of ids, in every store of ds
RECURSIVE BudgetEach(_, _)
BudgetEach(ds, ids) ==
    IF ids = {} THEN ds
    ELSE BudgetEach({SetBudgetCall(d, Jan2024, Min(ids), Num(500)).db : d \in ds},
                    ids \ {Min(ids)})

\* add_transaction with a split on every category
Posted(d) ==
    AddTransactionCall(d, GoodDate, Num(10), "expense", NULL, "INR", NoMerchant, "",
                       SplitsOnAll(d), FALSE).db

\* The stores with a category tree, one transaction that has a split on every
\* category, and a budget for every category: what add_category,
\* add_transaction and set_budget leave in the file for a later run.
Ledgers ==
    UNION {BudgetEach({d}, DOMAIN d.categories) : d \in {Posted(f) : f \in Forests(MaxCats)}}

InitCat ==
    \E d \in Ledgers :
        /\ accounts = d.accounts
        /\ categories = d.categories
        /\ transactions = d.transactions
        /\ splits = d.splits
        /\ budgets = d.budgets
        /\ rules = d.rules
        /\ goals = d.goals
        /\ seq = d.seq
        /\ now = d.now
        /\ last = [op |-> "init_db", args |-> <<>>, ok |-> TRUE, data |-> NULL, pre |-> d]

\* An id no category has
Ghost == seq.categories + 1

SplitListInputs ==
    {SplitsOnAll(DB),
     Append(SplitsOnAll(DB), Split(NaN, NULL, Num(0), "")),
     Append(SplitsOnAll(DB), Split(Num(3), Ghost, Num(0), ""))}

NextCat ==
    \/ \E id \in DOMAIN categories, to \in DOMAIN categories \cup {NULL, Ghost},
          inc \in BOOLEAN : delete_category(id, to, inc)
    \/ delete_category(Ghost, NULL, TRUE)

SpecCat == InitCat /\ [][NextCat]_vars

\* ---------------------------------------------------------------- atomicity runs
AtomCats == 2
AtomTxs == 2

NextAtomic ==
    \/ \E p \in DOMAIN categories \cup {NULL} :
          /\ seq.categories < AtomCats
          /\ add_category("Food", p)
    \/ \E sl \in SplitListInputs \cup {<<>>}, date \in {GoodDate, BadDate} :
          /\ seq.transactions < AtomTxs
          /\ add_transaction(date, Num(10), "expense", NULL, NoMerchant, sl, FALSE)
    \/ \E id \in DOMAIN categories \cup {Ghost}, to \in DOMAIN categories \cup {NULL, Ghost},
          inc \in BOOLEAN : delete_category(id, to, inc)

SpecAtomic == Init /\ [][NextAtomic]_vars

\* ---------------------------------------------------------------- category tree properties
\* c is id or has id among its ancestors
RECURSIVE IsUnder(_, _, _)
IsUnder(cats, c, id) ==
    \/ c = id
    \/ /\ cats[c].parent_id \in DOMAIN cats
       /\ IsUnder(cats, cats[c].parent_id, id)

Below(cats, id) == {c \in DOMAIN cats : IsUnder(cats, c, id)}

DeletedCategory == last.op = "delete_category" /\ last.ok

\* The set the call was asked to delete
AskedSet ==
    IF last.args.include_descendants THEN Below(last.pre.categories, last.args.id)
    ELSE {last.args.id}

\* C3: after a successful delete_category with include_descendants, the
\* category and all its transitive descendants are gone, no split is deleted
\* and none references a deleted category: a split that referenced one now
\* references the reassign target when one outside the deleted set was given,
\* and NULL when none was given; every other split, and every transaction,
\* is as before.
C3_SubtreeDelete ==
    (DeletedCategory /\ last.args.include_descendants) =>
        LET was == last.pre
            gone == Below(was.categories, last.args.id)
            to == last.args.reassign_to_id
        IN  /\ categories = Restrict(was.categories, DOMAIN was.categories \ gone)
            /\ transactions = was.transactions
            /\ DOMAIN splits = DOMAIN was.splits
            /\ \A s \in DOMAIN splits : splits[s].category_id \notin gone
            /\ \A s \in DOMAIN splits :
                  IF was.splits[s].category_id \notin gone THEN splits[s] = was.splits[s]
                  ELSE /\ (to = NULL \/ to \notin gone) =>
                             splits[s] = [was.splits[s] EXCEPT !.category_id = to]
                       /\ \A f \in {"transaction_id", "amount", "gst_rate", "gst_amount", "tags"} :
                             splits[s][f] = was.splits[s][f]

\* A subtree three levels deep was deleted with a reassign target outside
\* it, and a split of the grandchild now references the target.
C3_Witness ==
    /\ DeletedCategory /\ last.args.include_descendants
    /\ last.args.reassign_to_id \in DOMAIN categories
    /\ \E c \in Below(last.pre.categories, last.args.id) :
          /\ c # last.args.id
          /\ last.pre.categories[c].parent_id # last.args.id
          /\ \E s \in DOMAIN splits :
                /\ last.pre.splits[s].category_id = c
                /\ splits[s].category_id = last.args.reassign_to_id
    /\ \E s \in DOMAIN splits :
          /\ last.pre.splits[s].category_id = last.args.reassign_to_id
          /\ splits[s] = last.pre.splits[s]

\* C4: after a successful delete_category with include_descendants false only
\* the named category is gone; its descendants remain, its children as roots,
\* and the splits and budgets of the descendants are as before.
C4_DescendantsSurvive ==
    (DeletedCategory /\ ~last.args.include_descendants) =>
        LET was == last.pre
            id == last.args.id
        IN  /\ DOMAIN categories = DOMAIN was.categories \ {id}
            /\ \A c \in DOMAIN categories :
                  categories[c] = IF was.categories[c].parent_id = id
                                  THEN [was.categories[c] EXCEPT !.parent_id = NULL]
                                  ELSE was.categories[c]
            /\ \A s \in DOMAIN was.splits :
                  was.splits[s].category_id # id => splits[s] = was.splits[s]
            /\ budgets = {b \in was.budgets : b.category_id # id}

\* C5: a delete_category whose reassign target does not exist, or is a member
\* of the set being deleted, is rejected and changes nothing.
C5_BadReassignRejected ==
    (/\ last.op = "delete_category"
     /\ last.args.reassign_to_id # NULL
     /\ \/ last.args.reassign_to_id \notin DOMAIN last.pre.categories
        \/ last.args.reassign_to_id \in AskedSet) =>
        (~last.ok /\ DB = last.pre)

\* The splits a call of add_transaction is to write
Writable(splitList) ==
    IF splitList = <<>> THEN 1
    ELSE Cardinality({i \in DOMAIN splitList : splitList[i].amount # Num(0)})

\* C6: add_transaction and delete_category are atomic. A call that fails
\* leaves every table as it was; an add_transaction that succeeds has written
\* the transaction and every split, a delete_category that succeeds has
\* removed the category.
C6_Atomic ==
    /\ (last.op \in {"add_transaction", "delete_category"} /\ ~last.ok) => DB = last.pre
    /\ (last.op = "add_transaction" /\ last.ok) =>
          /\ DOMAIN transactions = DOMAIN last.pre.transactions \cup {last.data}
          /\ last.data \notin DOMAIN last.pre.transactions
          /\ LET new == DOMAIN splits \ DOMAIN last.pre.splits IN
             /\ Cardinality(new) = Writable(last.args.splits)
             /\ \A s \in new : splits[s].transaction_id = last.data
    /\ DeletedCategory => last.args.id \notin DOMAIN categories

\* An add_transaction failed on its last split, a reference to a category
\* that does not exist, after the transaction row and the earlier splits
\* had been written.
C6_Witness ==
    /\ last.op = "add_transaction" /\ ~last.ok
    /\ Len(last.args.splits) >= 3
    /\ last.args.splits[Len(last.args.splits)].category_id
          \notin DOMAIN last.pre.categories \cup {NULL}
    /\ \A i \in 1 .. Len(last.args.splits) - 1 :
          last.args.splits[i].category_id \in DOMAIN last.pre.categories \cup {NULL}
    /\ DB = last.pre

\* ---------------------------------------------------------------- account runs
\* An id no account has
GhostAccount == seq.accounts + 1

NextAcc ==
    \/ \E name \in {"Cash", "Bank"} : add_account(name)
    \/ \E a \in DOMAIN accounts \cup {NULL, GhostAccount} :
          add_transaction(GoodDate, Num(10), "expense", a, NoMerchant, <<>>, FALSE)
    \/ \E id \in DOMAIN accounts \cup {GhostAccount},
          to \in DOMAIN accounts \cup {NULL, GhostAccount} : delete_account(id, to)

SpecAcc == Init /\ [][NextAcc]_vars

\* C7: delete_account never deletes a transaction or a split. A call on an
\* existing account with no reassign target, or with one that exists and
\* differs from the account, succeeds: the account is gone, the transactions
\* that referenced it reference the target (NULL when none was given) and
\* nothing else of any transaction changes. Every other call is rejected and
\* changes nothing.
C7_DeleteAccountKeepsTransactions ==
    last.op = "delete_account" =>
        LET was == last.pre
            id == last.args.id
            to == last.args.reassign_to_id
        IN  /\ DOMAIN transactions = DOMAIN was.transactions
            /\ splits = was.splits
            /\ IF /\ id \in DOMAIN was.accounts
                  /\ to = NULL \/ (to # id /\ to \in DOMAIN was.accounts)
               THEN /\ last.ok
                    /\ accounts = Restrict(was.accounts, DOMAIN was.accounts \ {id})
                    /\ \A t \in DOMAIN transactions :
                          transactions[t] =
                              IF was.transactions[t].account_id = id
                              THEN [was.transactions[t] EXCEPT !.account_id = to]
                              ELSE was.transactions[t]
               ELSE ~last.ok /\ DB = was

\* An account with transactions was deleted with a reassign target; one of
\* its transactions now references the target, and a transaction of another
\* account is as before.
C7_Witness ==
    /\ last.op = "delete_account" /\ last.ok
    /\ last.args.reassign_to_id \in DOMAIN accounts
    /\ \E t \in DOMAIN transactions :
          /\ last.pre.transactions[t].account_id = last.args.id
          /\ transactions[t].account_id = last.args.reassign_to_id
    /\ \E t \in DOMAIN transactions :
          /\ last.pre.transactions[t].account_id \notin {last.args.id, last.args.reassign_to_id}
          /\ transactions[t] = last.pre.transactions[t]

\* ---------------------------------------------------------------- split runs
SplitRules == 1
SplitTxs == 1

\* An id no transaction has, an id no split has
GhostTx == seq.transactions + 1
GhostSplit == seq.splits + 1

ZeroSplit == Split(Num(0), NULL, Num(0), "")

SplitLists ==
    {<<>>,
     <<ZeroSplit>>,
     <<Split(Num(4), NULL, Num(0), ""), ZeroSplit, Split(Num(6), NULL, Num(5), "own")>>}

NextSplits ==
    \/ /\ seq.rules < SplitRules
       /\ add_rule(RuleAll.when, RuleAll.set, RuleAll.priority, RuleAll.enabled)
    \/ \E sl \in SplitLists, ar \in BOOLEAN :
          /\ seq.transactions < SplitTxs
          /\ add_transaction(GoodDate, Num(10), "expense", NULL, MerchantAb, sl, ar)
    \/ \E t \in DOMAIN transactions \cup {GhostTx}, amount \in {Num(0), Num(5), NaN} :
          add_split(t, amount, NULL, Num(0), "")
    \/ \E sp \in DOMAIN splits \cup {GhostSplit} : delete_split(sp)

SpecSplits == Init /\ [][NextSplits]_vars

SplitsOf(t) == {sp \in DOMAIN splits : splits[sp].transaction_id = t}

\* C11: every stored transaction owns at least one split.
C11_EveryTransactionHasSplit ==
    \A t \in DOMAIN transactions : SplitsOf(t) # {}

\* The splits the call just served has written, in rowid order
NewSplits == RowidOrder(DOMAIN splits \ DOMAIN last.pre.splits)

\* The supplied splits whose amount is not zero, in order
NonZero(splitList) == SelectSeq(splitList, LAMBDA sp : sp.amount # Num(0))

\* The value the rule engine gives key for the transaction just served
RuleValue(key, default) ==
    LET ids == Setters(last.pre, LastTrn, key) IN
    IF ids = {} THEN default ELSE SetOf(last.pre, Dominant(last.pre, ids))[key]

\* C12: a successful add_transaction with a non-empty split list has stored
\* one split per supplied split of non-zero amount, in order, and none for a
\* split of amount zero; with no split list it has stored exactly one split
\* of the gross amount, with the rule engine's category, tags and tax rate
\* when apply_rules is true and with a null category, empty tags and zero tax
\* when it is false.
C12_SplitsWritten ==
    (last.op = "add_transaction" /\ last.ok) =>
        LET kept == NonZero(last.args.splits) IN
        /\ \A i \in DOMAIN NewSplits : splits[NewSplits[i]].transaction_id = last.data
        /\ IF last.args.splits # <<>>
           THEN /\ Len(NewSplits) = Len(kept)
                /\ \A i \in DOMAIN kept :
                      /\ splits[NewSplits[i]].amount = kept[i].amount.v
                      /\ ~last.args.apply_rules =>
                            /\ splits[NewSplits[i]].category_id = kept[i].category_id
                            /\ splits[NewSplits[i]].tags = kept[i].tags
                            /\ splits[NewSplits[i]].gst_rate = kept[i].gst_rate.v
           ELSE /\ Len(NewSplits) = 1
                /\ splits[NewSplits[1]].amount = transactions[last.data].amount
                /\ splits[NewSplits[1]].amount = last.args.amount.v
                /\ IF last.args.apply_rules
                   THEN /\ splits[NewSplits[1]].category_id = RuleValue("category_id", NULL)
                        /\ splits[NewSplits[1]].tags = RuleValue("tags", "")
                        /\ splits[NewSplits[1]].gst_rate = RuleValue("gst_rate", Num(0)).v
                   ELSE /\ splits[NewSplits[1]].category_id = NULL
                        /\ splits[NewSplits[1]].tags = ""
                        /\ splits[NewSplits[1]].gst_rate = 0

\* A list of three splits, the middle one of amount zero, was stored as two.
C12_Witness ==
    /\ last.op = "add_transaction" /\ last.ok
    /\ Len(last.args.splits) = 3
    /\ last.args.splits[2].amount = Num(0)
    /\ Len(NewSplits) = 2
    /\ splits[NewSplits[2]].amount = last.args.splits[3].amount.v

\* ---------------------------------------------------------------- upkeep runs
UpkeepTxs == 1

\* Patches: the empty patch, patches of unknown keys only, and patches that
\* set allow-listed columns to good and to bad values
PatchInputs ==
    {<<>>,
     "foo" :> 1,
     ("foo" :> 1) @@ ("merchant" :> MerchantAb),
     ("date" :> SlashDate) @@ ("amount" :> Num(20)),
     ("date" :> BadDate) @@ ("merchant" :> MerchantAb),
     "amount" :> NaN,
     "type" :> "bogus",
     "account_id" :> GhostAccount}

OneRowFile == File(TRUE, TRUE, <<SlashRow>>)

NextUpkeep ==
    \/ \E type \in {"expense", "bogus"} :
          /\ seq.transactions < UpkeepTxs
          /\ add_transaction(GoodDate, Num(10), type, NULL, NoMerchant, <<>>, FALSE)
    \/ \E id \in DOMAIN transactions \cup {GhostTx}, fields \in PatchInputs :
          update_transaction(id, fields)
    \/ \E id \in DOMAIN transactions \cup {GhostTx} : delete_transaction(id)
    \/ goals_set("car", Num(100), GoodDate)
    \/ \E name \in {"", "car", "home"}, delete_all \in BOOLEAN : goals_delete(name, delete_all)
    \/ delete_account(GhostAccount, NULL)
    \/ delete_category(Ghost, NULL, TRUE)
    \/ \E dry_run \in BOOLEAN, type \in {"expense", "bogus"} :
          /\ dry_run \/ seq.transactions < UpkeepTxs
          /\ import_csv(OneRowFile, dry_run, type, NULL)
    \/ tick

SpecUpkeep == Init /\ [][NextUpkeep]_vars

\* The columns of a transaction that a caller supplies
TxColumns == {"date", "amount", "account_id", "currency", "type", "merchant", "notes"}

\* The value a patch asks for column k, as it is stored
Asked(fields, k) ==
    IF k = "date" THEN coerce_date(fields[k]).val
    ELSE IF k = "amount" THEN fields[k].v
    ELSE fields[k]

\* C13: update_transaction changes only the allow-listed columns named by the
\* patch, to the values of the patch, and refreshes updated_at; every other
\* key of the patch is ignored, every other column, transaction and table is
\* as before. A patch with no allow-listed key is rejected and leaves the
\* store, the transaction's updated_at included, as it was; so does every
\* other rejected call.
C13_UpdateAllowList ==
    last.op = "update_transaction" =>
        LET was == last.pre
            id == last.args.id
            fields == last.args.fields
            named == DOMAIN fields \cap TxColumns
        IN  /\ named = {} => ~last.ok
            /\ ~last.ok => DB = was
            /\ last.ok =>
                  /\ [DB EXCEPT !.transactions = was.transactions] = was
                  /\ DOMAIN transactions = DOMAIN was.transactions
                  /\ \A t \in DOMAIN transactions \ {id} :
                        transactions[t] = was.transactions[t]
                  /\ id \in DOMAIN transactions =>
                        /\ \A k \in TxColumns \ named :
                              transactions[id][k] = was.transactions[id][k]
                        /\ \A k \in named : transactions[id][k] = Asked(fields, k)
                        /\ transactions[id].updated_at = now

\* A second after it was created, a transaction was updated by a patch
\* that names merchant and the unknown key foo: the merchant and updated_at
\* changed.
C13_Witness ==
    /\ last.op = "update_transaction" /\ last.ok
    /\ last.args.id \in DOMAIN transactions
    /\ DOMAIN last.args.fields = {"foo", "merchant"}
    /\ transactions[last.args.id].merchant # last.pre.transactions[last.args.id].merchant
    /\ transactions[last.args.id].updated_at > last.pre.transactions[last.args.id].updated_at

\* The call just served names a transaction, goal, account or category that
\* does not exist
NamesNothing ==
    \/ /\ last.op \in {"update_transaction", "delete_transaction"}
       /\ last.args.id \notin DOMAIN last.pre.transactions
    \/ /\ last.op = "goals_delete"
       /\ ~last.args.delete_all
       /\ \A g \in last.pre.goals : g.name # last.args.name
    \/ last.op = "delete_account" /\ last.args.id \notin DOMAIN last.pre.accounts
    \/ last.op = "delete_category" /\ last.args.id \notin DOMAIN last.pre.categories

\* C14: a mutating call that names a transaction, goal, account or category
\* that does not exist returns an error envelope.
C14_NotFoundIsError ==
    NamesNothing => ~last.ok

\* The call just served was given a type outside expense, income, transfer
InvalidType ==
    \/ last.op = "add_transaction" /\ last.args.type \notin TxTypes
    \/ /\ last.op = "update_transaction"
       /\ "type" \in DOMAIN last.args.fields
       /\ last.args.fields["type"] \notin TxTypes
    \/ last.op = "import_csv" /\ last.args.default_type \notin TxTypes

\* C15: a call that is given an invalid transaction type is rejected: it
\* never returns a success envelope, and no stored transaction has such a type.
C15_InvalidTypeRejected ==
    /\ InvalidType => ~last.ok
    /\ \A t \in DOMAIN transactions : transactions[t].type \in TxTypes

\* ---------------------------------------------------------------- seeding runs
SeedFiles ==
    {SeedFile(FALSE, FALSE, FALSE, <<>>),
     SeedFile(TRUE, FALSE, FALSE, <<>>),
     SeedFile(TRUE, TRUE, FALSE, <<>>),
     SeedFile(TRUE, TRUE, TRUE, <<Item("Food", TRUE, <<"Groceries">>)>>),
     SeedFile(TRUE, TRUE, TRUE, <<Item("Food", TRUE, <<>>), Item("Travel", FALSE, <<>>)>>)}

NextSeed ==
    \/ \E file \in SeedFiles, reset \in BOOLEAN : seed_categories_from_file(file, reset)
    \/ \E name \in {"Food", "Groceries"},
          parent_id \in DOMAIN categories \cup {NULL, seq.categories + 1} :
          add_category(name, parent_id)
    \/ \E id \in DOMAIN categories, include_descendants \in BOOLEAN :
          delete_category(id, NULL, include_descendants)

SpecSeed == Init /\ [][NextSeed]_vars

Roots(d) == {c \in DOMAIN d.categories : d.categories[c].parent_id = NULL}

Children(d) == DOMAIN d.categories \ Roots(d)

\* Store d holds every parent of the file as a root and every child of the
\* file under a root of its parent's name: the file has been seeded into d
Seeded(d, file) ==
    \A i \in DOMAIN file.items :
        /\ \E r \in Roots(d) : d.categories[r].name = file.items[i].parent_name
        /\ \A k \in DOMAIN file.items[i].child_list :
              \E c \in Children(d) :
                  /\ d.categories[c].name = file.items[i].child_list[k]
                  /\ d.categories[d.categories[c].parent_id].name = file.items[i].parent_name

\* C16: seed_categories_from_file with reset=False is idempotent: run on a
\* store the file has already been seeded into, it leaves the number of root
\* categories and the number of child categories as they were.
C16_SeedIdempotent ==
    (/\ last.op = "seed_categories_from_file"
     /\ ~last.args.reset
     /\ last.args.file.exists /\ last.args.file.parses /\ last.args.file.object
     /\ Seeded(last.pre, last.args.file))
    => /\ Cardinality(Roots(DB)) = Cardinality(Roots(last.pre))
       /\ Cardinality(Children(DB)) = Cardinality(Children(last.pre))

\* C17: no two categories have the same name under the same parent, two
\* roots of the same name included, and add_category of a name that exists
\* at that position is rejected.
C17_UniqueNamePerParent ==
    /\ \A a, b \in DOMAIN categories :
          (/\ categories[a].name = categories[b].name
           /\ categories[a].parent_id = categories[b].parent_id) => a = b
    /\ (/\ last.op = "add_category"
        /\ \E c \in DOMAIN last.pre.categories :
              /\ last.pre.categories[c].name = last.args.name
              /\ last.pre.categories[c].parent_id = last.args.parent_id)
       => ~last.ok

\* ---------------------------------------------------------------- budget runs
BudgetTxs == 2
BudgetCats == 2

Feb2024 == [len |-> 6, ym |-> 202402]
Jan0999 == [len |-> 6, ym |-> 99901]

\* Transactions on the first and last day of January 2024, the day after,
\* an income in the month, and a day of January 999 written with four digits
Postings ==
    {<<Canonical(2024, 1, 1), "expense">>, <<DateText(31, 2, 1, 2, 2024, 4, "/", FALSE), "expense">>,
     <<Canonical(2024, 2, 1), "expense">>, <<Canonical(2024, 1, 31), "income">>,
     <<Canonical(999, 1, 15), "expense">>}

NextBudget ==
    \/ \E name \in {"Food", "Fuel"} :
          /\ seq.categories < BudgetCats
          /\ add_category(name, NULL)
    \/ \E p \in Postings, cat \in DOMAIN categories :
          /\ seq.transactions < BudgetTxs
          /\ add_transaction(p[1], Num(10), p[2], NULL, NoMerchant,
                             <<Split(Num(4), cat, Num(0), ""), Split(Num(6), cat, Num(0), "")>>,
                             FALSE)
    \/ \E month \in {Jan2024, Feb2024} : set_budget(month, 1, Num(50))
    \/ \E month \in {Jan2024, Jan0999, [len |-> 5, ym |-> 20240], [len |-> 6, ym |-> 202413]} :
          get_budget_summary(month)

SpecBudget == Init /\ [][NextBudget]_vars

\* The date lies in month m of year y, first to last day inclusive
InMonth(date, y, m) ==
    date.f[1] = y /\ date.f[2] = m /\ date.f[3] >= 1 /\ date.f[3] <= DaysIn(y, m)

\* The splits of category cat that count as spent in the month
SpentSplits(cat, y, m) ==
    {s \in DOMAIN splits :
        /\ splits[s].category_id = cat
        /\ transactions[splits[s].transaction_id].type = "expense"
        /\ InMonth(transactions[splits[s].transaction_id].date, y, m)}

\* The summary just returned is the one the month calls for: one row for each
\* category, with the sum of the month's expense splits, the month's budget
\* or NULL, and their difference
SummaryRight ==
    LET month == last.args.month_yyyymm
        y == month.ym \div 100
        m == month.ym % 100
    IN  /\ {r.category_id : r \in last.data} = DOMAIN categories
        /\ \A r, q \in last.data : r.category_id = q.category_id => r = q
        /\ \A r \in last.data :
              LET mine == {b \in budgets : /\ b.category_id = r.category_id
                                           /\ b.month_yyyymm = month}
                  spent == SumAmount(DB, SpentSplits(r.category_id, y, m))
              IN  /\ r.category_name = categories[r.category_id].name
                  /\ r.actual_spent = spent
                  /\ IF mine = {} THEN r.budget_amount = SqlNull
                     ELSE \E b \in mine : r.budget_amount = SqlVal(b.amount)
                  /\ r.variance = COALESCE(r.budget_amount, 0) - spent

\* C18: get_budget_summary for a valid month returns exactly one row per
\* existing category; actual_spent is the sum of the category's splits whose
\* transaction is an expense dated within the month, first to last day
\* inclusive, budget_amount is the month's budget or null, and variance is
\* the budget (0 if absent) minus actual_spent.
C18_BudgetSummary ==
    (last.op = "get_budget_summary" /\ last.ok) => SummaryRight

\* The same for the months of the years from 1000 on
BudgetSummaryFrom1000 ==
    (/\ last.op = "get_budget_summary" /\ last.ok
     /\ last.args.month_yyyymm.ym \div 100 >= 1000) => SummaryRight

\* A January 2024 summary over a category with a budget and expenses on the
\* last day of the month and on the day after
BudgetSummaryWitness ==
    /\ last.op = "get_budget_summary" /\ last.ok
    /\ last.args.month_yyyymm = Jan2024
    /\ \E r \in last.data : ~r.budget_amount.null /\ r.actual_spent = 10 /\ r.variance = 40
    /\ \E r \in last.data : r.budget_amount.null /\ r.actual_spent = 0
    /\ \E t \in DOMAIN transactions : transactions[t].date = Canonical(2024, 2, 1)
    /\ \E t \in DOMAIN transactions : transactions[t].date = Canonical(2024, 1, 31)

\* ---------------------------------------------------------------- date runs
Years == {1, 999, 2024}
Months == {1, 2, 13}
Days == {1, 30, 45}

\* The widths a number can be written in: as it is, or zero-padded to pad digits
Widths(n, pad) == {DigitCount(n)} \cup {w \in {pad} : w >= DigitCount(n)}

\* Date texts with the year first or last, the month before or after the
\* day, either separator, with and without trailing characters
DateTexts ==
    UNION {UNION {UNION {{DateText(y, wy, m, wm, d, wd, sep, tail),
                          DateText(d, wd, m, wm, y, wy, sep, tail),
                          DateText(m, wm, d, wd, y, wy, sep, tail)} :
                         sep \in {"-", "/"}, tail \in BOOLEAN} :
                  wy \in Widths(y, 4), wm \in Widths(m, 2), wd \in Widths(d, 2)} :
           y \in Years, m \in Months, d \in Days}

\* A text is handed to coerce_date
InitDates ==
    \E s \in DateTexts, d \in {FreshDB} :
        /\ accounts = d.accounts /\ categories = d.categories
        /\ transactions = d.transactions /\ splits = d.splits
        /\ budgets = d.budgets /\ rules = d.rules /\ goals = d.goals
        /\ seq = d.seq /\ now = d.now
        /\ last = [op |-> "text", args |-> [s |-> s], ok |-> TRUE, data |-> s, pre |-> d]

\* coerce_date is applied to the text, and then to the value it returned
CoerceDate ==
    /\ last.ok
    /\ last.op = "text" \/ last.args.s # last.data
    /\ \E r \in {coerce_date(last.data)} :
          Serve("coerce_date", [s |-> last.data], Envelope(~r.raised, r.val, DB))

NextDates == CoerceDate

SpecDates == InitDates /\ [][NextDates]_vars

\* C19: coerce_date is idempotent: for every input it accepts,
\* coerce_date(coerce_date(x)) = coerce_date(x).
C19_CoerceDateIdempotent ==
    (last.op = "coerce_date" /\ last.ok)
    => coerce_date(last.data) = [raised |-> FALSE, val |-> last.data]

\* C20: every value coerce_date returns is a calendar date written
\* YYYY-MM-DD; a text that names no calendar date is rejected.
C20_CoerceDateCalendar ==
    (last.op = "coerce_date" /\ last.ok)
    => /\ last.data.sep = "-" /\ last.data.w = <<4, 2, 2>> /\ ~last.data.tail
       /\ ValidYMD(last.data.f[1], last.data.f[2], last.data.f[3])

\* The text is two fields of one or two digits and a four-digit year
TwoFieldsAndYear(s) ==
    /\ ~s.tail
    /\ s.w[1] \in {1, 2} /\ s.w[2] \in {1, 2} /\ s.w[3] = 4

\* C21: a date written as two 1-2 digit fields and a 4-digit year, separated
\* by / or -, is read day-month-year when that is a calendar date, and
\* month-day-year only when the day-first reading is not one; when neither is,
\* the text is rejected.
C21_DayFirstWins ==
    (last.op = "coerce_date" /\ TwoFieldsAndYear(last.args.s))
    => LET a == last.args.s.f[1]
           b == last.args.s.f[2]
           y == last.args.s.f[3]
       IN  IF ValidYMD(y, b, a)
           THEN /\ last.ok
                /\ last.data.f = <<y, b, a>>
                /\ y >= 1000 => last.data = Canonical(y, b, a)
           ELSE IF ValidYMD(y, a, b)
           THEN /\ last.ok
                /\ last.data.f = <<y, a, b>>
                /\ y >= 1000 => last.data = Canonical(y, a, b)
           ELSE ~last.ok

\* A text whose two readings are different calendar dates was coerced
C21_Witness ==
    /\ last.op = "coerce_date" /\ last.ok
    /\ TwoFieldsAndYear(last.args.s)
    /\ last.args.s.f[1] # last.args.s.f[2]
    /\ ValidYMD(last.args.s.f[3], last.args.s.f[2], last.args.s.f[1])
    /\ ValidYMD(last.args.s.f[3], last.args.s.f[1], last.args.s.f[2])
    /\ last.data = Canonical(last.args.s.f[3], last.args.s.f[2], last.args.s.f[1])

\* ---------------------------------------------------------------- forecast runs
ForecastTxs == 2

Dec2024 == [y |-> 2024, m |-> 12]

\* Dates in and before the six months up to December 2024, a text of
\* canonical shape that is no calendar date, and a date of the year 999
ForecastDates ==
    {Canonical(2024, 11, 10), Canonical(2024, 12, 5), Canonical(2024, 4, 1),
     Canonical(2024, 13, 45), DateText(1, 2, 1, 2, 999, 4, "/", FALSE)}

NextForecast ==
    \/ \E date \in ForecastDates, p \in {<<"income", 100>>, <<"expense", 50>>} :
          /\ seq.transactions < ForecastTxs
          /\ add_transaction(date, Num(p[2]), p[1], NULL, NoMerchant, <<>>, FALSE)
    \/ \E months \in {Num(0), Num(2), Num(25), NaN} : forecast_cashflow(months, Dec2024)

SpecForecast == Init /\ [][NextForecast]_vars

\* The day of a stored date is on or after the first day of the sixth month
\* before today's
InWindow(date, today) ==
    date.f[1] * 12 + date.f[2] >= today.y * 12 + today.m - 6

\* The months of the history: year and month of the transactions in the window
HistoryMonths(today) ==
    {<<transactions[t].date.f[1], transactions[t].date.f[2]>> :
        t \in {x \in DOMAIN transactions :
                  /\ InWindow(transactions[x].date, today)
                  /\ \E s \in DOMAIN splits : splits[s].transaction_id = x}}

\* income splits less expense splits over the history
HistoryNet(today) ==
    LET inWin == {s \in DOMAIN splits :
                     InWindow(transactions[splits[s].transaction_id].date, today)}
    IN  SumOfType(DB, inWin, "income") - SumOfType(DB, inWin, "expense")

\* The forecast is the one the history calls for: the clamped number of
\* entries, each of the mean monthly net to the hundredth, for the months
\* that follow the last month of the history
ForecastRight ==
    LET today == last.args.today
        ms == HistoryMonths(today)
        final == CHOOSE k \in ms : \A j \in ms : j[1] * 12 + j[2] <= k[1] * 12 + k[2]
        n == Cardinality(ms)
        f == last.data.forecast
    IN  /\ last.ok
        /\ Len(f) = Horizon(last.args.months.v)
        /\ \A i \in DOMAIN f :
              /\ 2 * (f[i].net * n - 100 * HistoryNet(today)) <= n
              /\ 2 * (100 * HistoryNet(today) - f[i].net * n) <= n
              /\ f[i].month.y * 12 + f[i].month.m = final[1] * 12 + final[2] + i
              /\ f[i].month.m \in 1..12

\* C22: forecast_cashflow(months) over a non-empty history returns exactly
\* clamp(months, 1, 24) entries, each with the mean of the per-month nets of
\* the months present in the history, for the consecutive calendar months
\* after the last month of the history.
C22_Forecast ==
    (/\ last.op = "forecast_cashflow"
     /\ last.args.months.num
     /\ HistoryMonths(last.args.today) # {})
    => ForecastRight

\* The same for histories of calendar dates of four-digit years
ForecastOfCalendarDates ==
    (/\ last.op = "forecast_cashflow"
     /\ last.args.months.num
     /\ HistoryMonths(last.args.today) # {}
     /\ \A t \in DOMAIN transactions :
           /\ transactions[t].date.w = <<4, 2, 2>>
           /\ ValidYMD(transactions[t].date.f[1], transactions[t].date.f[2],
                       transactions[t].date.f[3]))
    => ForecastRight

\* Two entries after a history of November and December 2024 with nets 100
\* and -50: January and February 2025, 25.00 each
ForecastWitness ==
    /\ last.op = "forecast_cashflow" /\ last.ok
    /\ Len(last.data.forecast) = 2
    /\ last.data.forecast[1] = [month |-> [y |-> 2025, m |-> 1], net |-> 2500]
    /\ last.data.forecast[2] = [month |-> [y |-> 2025, m |-> 2], net |-> 2500]

\* ---------------------------------------------------------------- summary runs
SummaryTxs == 1
SummaryCats == 1

\* The January range, a range that ends before the transactions' date, and
\* a range with a start that is no date
Ranges ==
    {<<Canonical(2024, 1, 1), Canonical(2024, 1, 31)>>,
     <<DateText(1, 2, 1, 2, 2024, 4, "/", FALSE), Canonical(2024, 1, 10)>>,
     <<BadDate, Canonical(2024, 1, 31)>>}

\* A transaction of gross amount 10 is entered with no splits, or with splits
\* of 4 on a category and 3 on none; add_split adds 5 more
NextSummary ==
    \/ /\ seq.categories < SummaryCats
       /\ add_category("Food", NULL)
    \/ \E cat \in DOMAIN categories \cup {Ghost} :
          /\ seq.transactions < SummaryTxs
          /\ add_transaction(GoodDate, Num(10), "expense", NULL, MerchantAb,
                             IF cat = Ghost THEN <<>>
                             ELSE <<Split(Num(4), cat, Num(0), ""),
                                    Split(Num(3), NULL, Num(0), "")>>,
                             FALSE)
    \/ \E t \in DOMAIN transactions, cat \in DOMAIN categories \cup {NULL} :
          add_split(t, Num(5), cat, Num(0), "")
    \/ \E range \in Ranges, group_by \in GroupBys \cup {"week"} :
          summary(range[1], range[2], group_by)

SpecSummary == Init /\ [][NextSummary]_vars

\* date a is not after date b
NotAfter(a, b) ==
    \/ a.f[1] < b.f[1]
    \/ a.f[1] = b.f[1] /\ a.f[2] < b.f[2]
    \/ a.f[1] = b.f[1] /\ a.f[2] = b.f[2] /\ a.f[3] <= b.f[3]

\* The splits of category cat (NULL: of no category) dated in the range asked
SplitsInRange(cat) ==
    LET from == coerce_date(last.args.start_date).val
        to == coerce_date(last.args.end_date).val
    IN  {s \in DOMAIN splits :
            /\ splits[s].category_id = cat
            /\ NotAfter(from, transactions[splits[s].transaction_id].date)
            /\ NotAfter(transactions[splits[s].transaction_id].date, to)}

\* The row that the claim calls for category cat
RowFor(cat) ==
    [key |-> IF cat = NULL THEN "Uncategorized" ELSE categories[cat].name,
     total |-> SumAmount(DB, SplitsInRange(cat))]

\* C23: splits that do not sum to their transaction's gross amount are
\* accepted, and summary(group_by='category') has, for each category with
\* splits in the date range, one row with the category's name and the sum of
\* those split amounts, and one row keyed Uncategorized with the sum of all
\* splits in the range that have no category; it has no other row.
C23_CategoryTotals ==
    /\ (/\ last.op \in {"add_transaction", "add_split"}
        /\ last.args.amount.num
        /\ last.op = "add_split" => last.args.transaction_id \in DOMAIN last.pre.transactions)
       => last.ok
    /\ (last.op = "summary" /\ last.args.group_by = "category"
        /\ ~coerce_date(last.args.start_date).raised)
       => /\ last.ok
          /\ LET present == {c \in DOMAIN categories \cup {NULL} : SplitsInRange(c) # {}} IN
             \A r \in DOMAIN last.data \cup {RowFor(c) : c \in present} :
                /\ r \in DOMAIN last.data
                /\ last.data[r] = Cardinality({c \in present : RowFor(c) = r})

\* A category summary over a transaction of gross amount 10 in the range
\* whose splits are 4 on Food, 3 and 5 on no category: Food 4,
\* Uncategorized 8
C23_Witness ==
    /\ last.op = "summary" /\ last.ok /\ last.args.group_by = "category"
    /\ DOMAIN last.data = {[key |-> "Food", total |-> 4], [key |-> "Uncategorized", total |-> 8]}

\* ---------------------------------------------------------------- matching runs
MatchRules == 1
MatchTxs == 1

TagRule(when, tag, enabled) == Rule(when, Overrides({"tags"}, NULL, tag, Num(0)), 10, enabled)

\* Rules with one constraint each, at and beside the amounts 10 and 11 of
\* the transactions, with two constraints, with none, and a disabled rule
MatchInputs ==
    {TagRule(When({"merchant_regex"}, <<"B">>, Num(0), Num(0), ""), "m", TRUE),
     TagRule(When({"amount_min"}, <<>>, Num(10), Num(0), ""), "min10", TRUE),
     TagRule(When({"amount_min"}, <<>>, Num(11), Num(0), ""), "min11", TRUE),
     TagRule(When({"amount_max"}, <<>>, Num(0), Num(10), ""), "max10", TRUE),
     TagRule(When({"amount_max"}, <<>>, Num(0), Num(9), ""), "max9", TRUE),
     TagRule(When({"type"}, <<>>, Num(0), Num(0), "income"), "inc", TRUE),
     TagRule(When({"merchant_regex", "type"}, <<"a", "B">>, Num(0), Num(0), "expense"), "mt", TRUE),
     TagRule(EmptyWhen, "all", TRUE),
     TagRule(EmptyWhen, "off", FALSE)}

NextMatch ==
    \/ \E r \in MatchInputs :
          /\ seq.rules < MatchRules
          /\ add_rule(r.when, r.set, r.priority, r.enabled)
    \/ \E m \in Merchants, type \in {"expense", "income"}, amount \in {Num(10), Num(11)} :
          /\ seq.transactions < MatchTxs
          /\ add_transaction(GoodDate, amount, type, NULL, m, <<>>, TRUE)

SpecMatch == Init /\ [][NextMatch]_vars

\* The pattern occurs somewhere in the text, letters of either case alike
OccursIn(pattern, text) ==
    \E i \in 0..(Len(text) - Len(pattern)) :
        \A k \in 1..Len(pattern) : Lower(text[i + k]) = Lower(pattern[k])

\* All the constraints that predicate W has hold of trn
AllConstraintsHold(W, trn) ==
    /\ "merchant_regex" \in W.has => OccursIn(W.merchant_regex, trn.merchant)
    /\ "amount_min" \in W.has => trn.amount >= W.amount_min.v
    /\ "amount_max" \in W.has => trn.amount <= W.amount_max.v
    /\ "type" \in W.has => trn.type = W.type

\* The enabled rules that set tags and whose constraints all hold of trn
TagSetters(d, trn) ==
    {id \in LiveRules(d) : /\ "tags" \in SetOf(d, id).has
                           /\ AllConstraintsHold(WhenOf(d, id), trn)}

\* C24: a rule matches a record exactly when every constraint its predicate
\* has holds (pattern found anywhere in the merchant ignoring case, amount
\* within the inclusive bounds, type equal), a predicate with no constraint
\* matches every record, and a disabled rule contributes nothing: the tags of
\* the split that add_transaction synthesizes are those of the last such
\* enabled rule, and empty when there is none.
C24_MatchAllConstraints ==
    (ClassifiedTx /\ \A id \in LiveRules(last.pre) : SoundRule(last.pre, id))
    => LET hits == TagSetters(last.pre, LastTrn) IN
       NewSplit.tags = (IF hits = {} THEN ""
                        ELSE SetOf(last.pre, Dominant(last.pre, hits)).tags)

\* A transaction of amount 10 was classified by a rule with amount_min 10
C24_Witness ==
    /\ ClassifiedTx
    /\ NewSplit.tags = "min10"
    /\ \E id \in LiveRules(last.pre) :
          /\ WhenOf(last.pre, id).has = {"amount_min"}
          /\ WhenOf(last.pre, id).amount_min.v = last.args.amount.v

\* ---------------------------------------------------------------- properties: forest
\* Category c reaches a root in at most n steps along the parent links
RECURSIVE ReachesRoot(_, _)
ReachesRoot(c, n) ==
    \/ categories[c].parent_id = NULL
    \/ /\ n > 0
       /\ categories[c].parent_id \in DOMAIN categories
       /\ ReachesRoot(categories[c].parent_id, n - 1)

\* C25: the parent links of the categories form an acyclic forest: every
\* non-null parent reference names an existing category, and following the
\* parent links from any category reaches a root.
C25_CategoryForest ==
    \A c \in DOMAIN categories :
        /\ categories[c].parent_id # NULL => categories[c].parent_id \in DOMAIN categories
        /\ ReachesRoot(c, Cardinality(DOMAIN categories))

\* C27: a seed_categories_from_file call that returns an error leaves the
\* categories, the budgets and the category of every split as they were
\* before the call.
C27_SeedAtomic ==
    (last.op = "seed_categories_from_file" /\ ~last.ok) =>
        /\ categories = last.pre.categories
        /\ budgets = last.pre.budgets
        /\ DOMAIN splits = DOMAIN last.pre.splits
        /\ \A s \in DOMAIN splits : splits[s].category_id = last.pre.splits[s].category_id

\* ---------------------------------------------------------------- reference runs
RefTxs == 1
RefCats == 1
RefRules == 1
RefSplits == 2

\* A rule that puts every record in category 1
RuleToFirst == Rule(EmptyWhen, Overrides({"category_id"}, 1, "", Num(0)), 10, TRUE)

\* categories.json holding the one root "Food"
FoodFile == SeedFile(TRUE, TRUE, TRUE, <<Item("Food", TRUE, <<>>)>>)

NextRef ==
    \/ /\ seq.categories < RefCats
       /\ add_category("Food", NULL)
    \/ /\ seq.rules < RefRules
       /\ add_rule(RuleToFirst.when, RuleToFirst.set, RuleToFirst.priority, RuleToFirst.enabled)
    \/ \E account_id \in DOMAIN accounts \cup {NULL, GhostAccount} :
          /\ seq.transactions < RefTxs
          /\ add_transaction(GoodDate, Num(10), "expense", account_id, NoMerchant, <<>>, TRUE)
    \/ /\ seq.transactions < RefTxs
       /\ import_csv(OneRowFile, FALSE, "expense", NULL)
    \/ \E t \in DOMAIN transactions \cup {GhostTx}, cat \in DOMAIN categories \cup {Ghost} :
          /\ seq.splits < RefSplits
          /\ add_split(t, Num(5), cat, Num(0), "")
    \/ \E cat \in {1, Ghost} : set_budget(Jan2024, cat, Num(50))
    \/ \E t \in DOMAIN transactions, account_id \in DOMAIN accounts \cup {GhostAccount} :
          update_transaction(t, "account_id" :> account_id)
    \/ \E t \in DOMAIN transactions : delete_transaction(t)
    \/ \E id \in DOMAIN categories : delete_category(id, NULL, TRUE)
    \/ \E id \in DOMAIN accounts : delete_account(id, NULL)
    \/ /\ seq.categories <= RefCats
       /\ seed_categories_from_file(FoodFile, TRUE)

SpecRef == Init /\ [][NextRef]_vars

\* C26: in every reachable state every split belongs to an existing
\* transaction, every split's category is null or an existing category,
\* every transaction's account is null or an existing account, and every
\* budget's category exists; after delete_transaction no split of the
\* deleted transaction is left and the other splits are as before.
C26_References ==
    /\ \A s \in DOMAIN splits :
          /\ splits[s].transaction_id \in DOMAIN transactions
          /\ splits[s].category_id \in DOMAIN categories \cup {NULL}
    /\ \A t \in DOMAIN transactions :
          transactions[t].account_id \in DOMAIN accounts \cup {NULL}
    /\ \A b \in budgets : b.category_id \in DOMAIN categories
    /\ last.op = "delete_transaction" =>
          /\ last.args.id \notin DOMAIN transactions
          /\ splits = Restrict(last.pre.splits,
                               {s \in DOMAIN last.pre.splits :
                                   last.pre.splits[s].transaction_id # last.args.id})

\* add_transaction applied a rule whose category had been deleted and was
\* refused: the rule is in force, its category is gone, nothing was stored
C26_Witness ==
    /\ last.op = "add_transaction" /\ ~last.ok
    /\ last.args.apply_rules
    /\ last.args.account_id \in DOMAIN accounts \cup {NULL}
    /\ \E id \in LiveRules(last.pre) :
          /\ "category_id" \in SetOf(last.pre, id).has
          /\ SetOf(last.pre, id).category_id \notin DOMAIN last.pre.categories
          /\ SetOf(last.pre, id).category_id < last.pre.seq.categories + 1
    /\ DB = last.pre

====
